---- MODULE Spec2Model ----
(***************************************************************************)
(* FretFocus: the tab-text parser (src/src/utils/parseTabText.js), the    *)
(* scale, chord and fret functions (src/src/utils/chords.js) and the tab   *)
(* navigation state of the App and TabRibbon components.                   *)
(*                                                                         *)
(* A JavaScript string is modelled as a sequence of one-character strings, *)
(* so that split, join, trim, indexOf, substring and the regular           *)
(* expressions of the parser are computed character by character.          *)
(* Indices passed between operators are 0-based, as in the source.         *)
(***************************************************************************)
EXTENDS Integers, Sequences, FiniteSets, TLC

\* ------------------------------------------------------------------------
\* JavaScript string primitives used by the parser
\* ------------------------------------------------------------------------

NL == "\n"

WhiteSpace == {" ", NL}

Digits == {"0", "1", "2", "3", "4", "5", "6", "7", "8", "9"}

StringLetters == {"E", "B", "G", "D", "A", "e", "b", "g", "d", "a"}

SetMax(S) == CHOOSE x \in S : \A y \in S : y <= x

SetMin(S) == CHOOSE x \in S : \A y \in S : x <= y

\* s.trim()
Trim(s) ==
  LET keep == {i \in 1..Len(s) : s[i] \notin WhiteSpace}
  IN  IF keep = {} THEN <<>> ELSE SubSeq(s, SetMin(keep), SetMax(keep))

\* s.split('\n')
RECURSIVE Split(_)
Split(s) ==
  LET nl == {i \in 1..Len(s) : s[i] = NL}
  IN  IF nl = {} THEN <<s>>
      ELSE LET k == SetMin(nl)
           IN  <<SubSeq(s, 1, k - 1)>> \o Split(SubSeq(s, k + 1, Len(s)))

\* lines.join('\n')
RECURSIVE Join(_)
Join(lines) ==
  IF lines = <<>> THEN <<>>
  ELSE IF Len(lines) = 1 THEN lines[1]
  ELSE lines[1] \o <<NL>> \o Join(Tail(lines))

\* s.indexOf(c): 0-based, -1 when absent
IndexOf(s, c) ==
  LET at == {i \in 1..Len(s) : s[i] = c}
  IN  IF at = {} THEN -1 ELSE SetMin(at) - 1

\* s.substring(from) and s.substring(from, to), 0-based
Substring(s, from) == SubSeq(s, from + 1, Len(s))

SubstringTo(s, from, to) == SubSeq(s, from + 1, to)

\* array.slice(from), 0-based
Slice(seq, from) == SubSeq(seq, from + 1, Len(seq))

\* s.toUpperCase() on a string identifier
ToUpperCase(c) ==
  CASE c = "e" -> "E" [] c = "b" -> "B" [] c = "g" -> "G"
    [] c = "d" -> "D" [] c = "a" -> "A" [] OTHER -> c

\* lines.map(line => line.trim()); array.filter(pred) is SelectSeq
TrimAll(lines) == [i \in 1..Len(lines) |-> Trim(lines[i])]

TabLinePatternPrefixOnly(line) ==
  /\ Len(line) >= 2
  /\ line[1] \in StringLetters
  /\ line[2] = "|"

\* /^[EBGDAebgda]\|[-\d|]/.test(line)
TabLinePattern(line) ==
  /\ Len(line) >= 3
  /\ line[1] \in StringLetters
  /\ line[2] = "|"
  /\ line[3] \in ({"-", "|"} \cup Digits)

\* /^[EBGDAebgda]\|/.test(line)
StringPrefixPattern(line) ==
  /\ Len(line) >= 2
  /\ line[1] \in StringLetters
  /\ line[2] = "|"

\* trimmed.length > 0 && /^[EBGDAebgda]\|[-\d|]/.test(trimmed)
IsTabLine(trimmed) == Len(trimmed) > 0 /\ TabLinePattern(trimmed)

\* ------------------------------------------------------------------------
\* parseTabText.js: findTabStart, groupIntoMetarows, concatenateMetarows,
\* extractTabContent
\* ------------------------------------------------------------------------

findTabStartPastLine(tabText) ==
  LET lines == Split(tabText)
      hits  == {i \in 1..Len(lines) : TabLinePattern(Trim(lines[i]))}
  IN  IF hits = {} THEN -1 ELSE SetMin(hits)

\* Index of the first line that starts the tab, or -1
findTabStart(tabText) ==
  LET lines == Split(tabText)
      hits  == {i \in 1..Len(lines) : TabLinePattern(Trim(lines[i]))}
  IN  IF hits = {} THEN -1 ELSE SetMin(hits) - 1

\* A metarow is a JavaScript object keyed by string index; the empty object
\* is the function with the empty domain.
EmptyMetarow == <<>>

MetarowKeys(metarow) == DOMAIN metarow

\* currentMetarow[stringIndex] = content
MetarowPut(metarow, stringIndex, content) ==
  [k \in (DOMAIN metarow) \cup {stringIndex} |->
     IF k = stringIndex THEN content ELSE metarow[k]]

StringIndexOfHighE(identifier, eCount) ==
  IF identifier = "E" THEN <<0, 1>>
  ELSE <<CASE identifier = "B" -> 1 [] identifier = "G" -> 2
           [] identifier = "D" -> 3 [] identifier = "A" -> 4
           [] OTHER -> -1,
         eCount>>

\* The string index of an identifier, given the E counter: <<index, eCount'>>
StringIndexOf(identifier, eCount) ==
  IF identifier = "E"
  THEN IF eCount = 0 THEN <<0, 1>> ELSE <<5, 0>>
  ELSE <<CASE identifier = "B" -> 1 [] identifier = "G" -> 2
           [] identifier = "D" -> 3 [] identifier = "A" -> 4
           [] OTHER -> -1,
         eCount>>

\* Whether a line assigned stringIndex closes the current metarow
StartsNewMetarow(stringIndex, currentMetarow) ==
  stringIndex = 0 /\ MetarowKeys(currentMetarow) # {}

LineContentFromPipe(trimmed, pipeIndex) == Substring(trimmed, pipeIndex)

\* trimmed.substring(pipeIndex + 1)
LineContent(trimmed, pipeIndex) == Substring(trimmed, pipeIndex + 1)

\* One iteration of the loop of groupIntoMetarows over the scan state
\* [metarows, currentMetarow, eCount]
GroupStep(st, line) ==
  LET trimmed == Trim(line)
  IN  IF trimmed = <<>> \/ ~TabLinePattern(trimmed) THEN st
      ELSE
        LET pipeIndex  == IndexOf(trimmed, "|")
            identifier == ToUpperCase(SubstringTo(trimmed, 0, pipeIndex)[1])
            content    == LineContent(trimmed, pipeIndex)
            si         == StringIndexOf(identifier, st.eCount)
            stringIndex == si[1]
            closes     == StartsNewMetarow(stringIndex, st.currentMetarow)
            saved      == IF closes THEN Append(st.metarows, st.currentMetarow)
                          ELSE st.metarows
            current    == IF closes THEN EmptyMetarow ELSE st.currentMetarow
        IN  IF stringIndex = -1 THEN st
            ELSE [metarows       |-> saved,
                  currentMetarow |-> MetarowPut(current, stringIndex, content),
                  eCount         |-> si[2]]

RECURSIVE GroupScan(_, _)
GroupScan(st, tabLines) ==
  IF tabLines = <<>> THEN st
  ELSE GroupScan(GroupStep(st, Head(tabLines)), Tail(tabLines))

groupIntoMetarows(tabLines) ==
  LET st == GroupScan([metarows |-> <<>>, currentMetarow |-> EmptyMetarow,
                       eCount |-> 0], tabLines)
  IN  IF MetarowKeys(st.currentMetarow) # {}
      THEN Append(st.metarows, st.currentMetarow)
      ELSE st.metarows

stringNames == <<"E", "B", "G", "D", "A", "E">>

\* metarow[stringIndex] || ''
MetarowContent(metarow, stringIndex) ==
  IF stringIndex \in MetarowKeys(metarow) THEN metarow[stringIndex] ELSE <<>>

\* The content of one string across all metarows, last metarow first
RECURSIVE StringLineReversed(_, _)
StringLineReversed(metarows, stringIndex) ==
  IF metarows = <<>> THEN <<>>
  ELSE StringLineReversed(Tail(metarows), stringIndex)
         \o (IF stringIndex \in DOMAIN Head(metarows)
             THEN Head(metarows)[stringIndex] ELSE <<>>)

\* The content of one string across all metarows, in order
RECURSIVE StringLine(_, _)
StringLine(metarows, stringIndex) ==
  IF metarows = <<>> THEN <<>>
  ELSE MetarowContent(Head(metarows), stringIndex)
         \o StringLine(Tail(metarows), stringIndex)

concatenateMetarows(metarows) ==
  IF Len(metarows) = 0 THEN <<>>
  ELSE [i \in 1..6 |-> <<stringNames[i], "|">> \o StringLine(metarows, i - 1)]

extractTabContent(tabText) ==
  IF tabText = <<>> \/ Trim(tabText) = <<>> THEN <<>>
  ELSE
    LET lines         == Split(tabText)
        tabStartIndex == findTabStart(tabText)
        from          == IF tabStartIndex = -1 THEN lines
                         ELSE Slice(lines, tabStartIndex)
        tabLines      == SelectSeq(TrimAll(from), IsTabLine)
    IN  IF Len(tabLines) = 0 THEN <<>>
        ELSE Join(concatenateMetarows(groupIntoMetarows(tabLines)))

\* The lines extractTabContent hands to groupIntoMetarows
TabLines(tabText) ==
  LET lines         == Split(tabText)
      tabStartIndex == findTabStart(tabText)
      from          == IF tabStartIndex = -1 THEN lines
                       ELSE Slice(lines, tabStartIndex)
  IN  SelectSeq(TrimAll(from), IsTabLine)

\* ------------------------------------------------------------------------
\* parseTabText.js: isValidTabText
\* ------------------------------------------------------------------------

NonEmptyLineUntrimmed(line) == Len(line) > 0

\* line.trim().length > 0
NonEmptyLine(line) == Len(Trim(line)) > 0

\* /[-|0-9]/.test(line)
HasTabCharacter(line) ==
  \E i \in 1..Len(line) : line[i] \in ({"-", "|"} \cup Digits)

isValidTabText(tabText) ==
  IF tabText = <<>> \/ Trim(tabText) = <<>> THEN FALSE
  ELSE
    LET lines == SelectSeq(Split(tabText), NonEmptyLine)
        allHaveStringIdentifiers ==
          \A i \in 1..Len(lines) : TabLinePattern(Trim(lines[i]))
        hasTabCharacters ==
          \E i \in 1..Len(lines) : HasTabCharacter(Trim(lines[i]))
    IN  IF Len(lines) < 3 THEN FALSE
        ELSE allHaveStringIdentifiers /\ hasTabCharacters /\ Len(lines) >= 3

\* ------------------------------------------------------------------------
\* parseTabText.js: findUniqueCharacterPositions, parseNotesAtColumn
\* ------------------------------------------------------------------------

HasStringPrefixAnyLetter(line) ==
  Len(Trim(line)) >= 2 /\ Trim(line)[2] = "|"

\* /^[EBGDAebgda]\|/.test(line.trim())
HasStringPrefix(line) == StringPrefixPattern(Trim(line))

\* The content after the first pipe of the (untrimmed) line
ContentAfterPipe(line) ==
  LET pipeIndex == IndexOf(line, "|")
  IN  IF pipeIndex # -1 THEN Substring(line, pipeIndex + 1) ELSE <<>>

\* The content lines of a tab text: non-blank lines with a string prefix
ContentLines(tabText) ==
  LET lines == SelectSeq(SelectSeq(Split(tabText), NonEmptyLine),
                         HasStringPrefix)
  IN  [i \in 1..Len(lines) |-> ContentAfterPipe(lines[i])]

isUniqueCharAnyMark(char) == char \notin {"-", "|", " ", ""}

\* Only the digits 0-9 are "unique" characters
isUniqueChar(char) == char \in Digits

\* line[col] in the 0-based column space; "" past the end
CharAt(line, col) == IF col >= 0 /\ col < Len(line) THEN line[col + 1] ELSE ""

\* The count of consecutive digits of line from col on, given a digit at col
RECURSIVE DigitWidth(_, _)
DigitWidth(line, col) ==
  IF col + 1 < Len(line) /\ line[col + 2] \in Digits
  THEN 1 + DigitWidth(line, col + 1)
  ELSE 1

\* Whether any content line has a unique character at col
HasUniqueChar(contentLines, col) ==
  \E i \in 1..Len(contentLines) :
     col < Len(contentLines[i]) /\ isUniqueChar(CharAt(contentLines[i], col))

MaxDigitWidthNarrowest(contentLines, col) ==
  SetMin({DigitWidth(contentLines[i], col) :
            i \in {j \in 1..Len(contentLines) :
                     col < Len(contentLines[j])
                     /\ isUniqueChar(CharAt(contentLines[j], col))}})

\* The widest digit run starting at col over all content lines, at least 1
MaxDigitWidth(contentLines, col) ==
  SetMax({1} \cup
         {DigitWidth(contentLines[i], col) :
            i \in {j \in 1..Len(contentLines) :
                     col < Len(contentLines[j])
                     /\ isUniqueChar(CharAt(contentLines[j], col))}})

MarkProcessedNone(processedColumns, col, width) == processedColumns

\* processedColumns.add(col + i) for i in 1..width-1
MarkProcessed(processedColumns, col, width) ==
  processedColumns \cup {col + i : i \in 1..(width - 1)}

\* The column loop of findUniqueCharacterPositions
RECURSIVE ScanColumns(_, _, _, _, _)
ScanColumns(contentLines, maxLength, col, processedColumns, uniquePositions) ==
  IF col >= maxLength THEN uniquePositions
  ELSE IF col \in processedColumns
  THEN ScanColumns(contentLines, maxLength, col + 1, processedColumns,
                   uniquePositions)
  ELSE IF HasUniqueChar(contentLines, col)
  THEN LET width == MaxDigitWidth(contentLines, col)
       IN  ScanColumns(contentLines, maxLength, col + 1,
                       MarkProcessed(processedColumns, col, width),
                       Append(uniquePositions,
                              [column |-> col, width |-> width]))
  ELSE ScanColumns(contentLines, maxLength, col + 1, processedColumns,
                   uniquePositions)

findUniqueCharacterPositions(tabText) ==
  IF tabText = <<>> \/ Trim(tabText) = <<>> THEN <<>>
  ELSE
    LET contentLines == ContentLines(tabText)
    IN  IF Len(contentLines) = 0 THEN <<>>
        ELSE LET maxLength ==
                   SetMax({Len(contentLines[i]) : i \in 1..Len(contentLines)})
             IN  ScanColumns(contentLines, maxLength, 0, {}, <<>>)

\* The value of one decimal digit
DigitValue(char) ==
  CASE char = "0" -> 0 [] char = "1" -> 1 [] char = "2" -> 2 [] char = "3" -> 3
    [] char = "4" -> 4 [] char = "5" -> 5 [] char = "6" -> 6 [] char = "7" -> 7
    [] char = "8" -> 8 [] char = "9" -> 9

\* parseInt(fretNumber, 10) on a non-empty string of digits
RECURSIVE ParseInt(_)
ParseInt(fretNumber) ==
  IF Len(fretNumber) = 0 THEN 0
  ELSE 10 * ParseInt(SubSeq(fretNumber, 1, Len(fretNumber) - 1))
         + DigitValue(fretNumber[Len(fretNumber)])

FretNumberOneDigit(line, column) == SubstringTo(line, column, column + 1)

\* The digits collected on one line from column on
FretNumber(line, column) ==
  SubstringTo(line, column, column + DigitWidth(line, column))

\* The per-string loop of parseNotesAtColumn
RECURSIVE NotesFrom(_, _, _)
NotesFrom(contentLines, column, stringIndex) ==
  IF ~(stringIndex < Len(contentLines) /\ stringIndex < 6) THEN <<>>
  ELSE
    LET line == contentLines[stringIndex + 1]
        rest == NotesFrom(contentLines, column, stringIndex + 1)
    IN  IF column >= Len(line) THEN rest
        ELSE IF CharAt(line, column) \in Digits
        THEN <<[stringIndex |-> stringIndex,
                fret |-> ParseInt(FretNumber(line, column))]>> \o rest
        ELSE rest

parseNotesAtColumn(tabText, column) ==
  IF tabText = <<>> \/ Trim(tabText) = <<>> THEN <<>>
  ELSE
    LET contentLines == ContentLines(tabText)
    IN  IF Len(contentLines) = 0 \/ column < 0 THEN <<>>
        ELSE NotesFrom(contentLines, column, 0)

\* ------------------------------------------------------------------------
\* scales: NOTE_NAMES, SCALE_PATTERNS, getScaleNotes
\* ------------------------------------------------------------------------

Null == "null"

\* The outcome of a call: a returned value or a thrown Error
Return(value) == <<"return", value>>

Throw(message, what) == <<"throw", message, what>>

Returns(outcome) == outcome[1] = "return"

Throws(outcome) == outcome[1] = "throw"

NOTE_NAMES ==
  <<"C", "C#", "D", "D#", "E", "F", "F#", "G", "G#", "A", "A#", "B">>

SCALE_PATTERNS ==
  ("pentatonic" :> <<0, 3, 5, 7, 10>>)
    @@ ("pentatonic-major" :> <<0, 2, 4, 7, 9>>)
    @@ ("pentatonic-minor" :> <<0, 3, 5, 7, 10>>)
    @@ ("major" :> <<0, 2, 4, 5, 7, 9, 11>>)
    @@ ("minor" :> <<0, 2, 3, 5, 7, 8, 10>>)
    @@ ("dorian" :> <<0, 2, 3, 5, 7, 9, 10>>)
    @@ ("mixolydian" :> <<0, 2, 4, 5, 7, 9, 10>>)
    @@ ("blues" :> <<0, 3, 5, 6, 7, 10>>)

\* NOTE_NAMES[(index + interval) % 12]
NoteAbove(index, interval) == NOTE_NAMES[((index + interval) % 12) + 1]

getScaleNotesStyleFirst(key, scaleStyle) ==
  LET keyIndex == IndexOf(NOTE_NAMES, key)
  IN  IF scaleStyle \notin DOMAIN SCALE_PATTERNS
      THEN Throw("Invalid scale style", scaleStyle)
      ELSE IF keyIndex = -1 THEN Throw("Invalid key", key)
      ELSE LET pattern == SCALE_PATTERNS[scaleStyle]
           IN  Return([i \in 1..Len(pattern) |-> NoteAbove(keyIndex, pattern[i])])

getScaleNotes(key, scaleStyle) ==
  LET keyIndex == IndexOf(NOTE_NAMES, key)
  IN  IF keyIndex = -1 THEN Throw("Invalid key", key)
      ELSE IF scaleStyle \notin DOMAIN SCALE_PATTERNS
      THEN Throw("Invalid scale style", scaleStyle)
      ELSE LET pattern == SCALE_PATTERNS[scaleStyle]
           IN  Return([i \in 1..Len(pattern) |-> NoteAbove(keyIndex, pattern[i])])

\* ------------------------------------------------------------------------
\* chords: CHORD_PATTERNS, getChordNotes, getChordFunction
\* ------------------------------------------------------------------------

CHORD_PATTERNS ==
  ("Major" :> <<0, 4, 7>>)
    @@ ("maj7" :> <<0, 4, 7, 11>>)
    @@ ("7" :> <<0, 4, 7, 10>>)
    @@ ("minor" :> <<0, 3, 7>>)
    @@ ("m7" :> <<0, 3, 7, 10>>)
    @@ ("diminished" :> <<0, 3, 6>>)
    @@ ("half-diminished" :> <<0, 3, 6, 10>>)
    @@ ("diminished7" :> <<0, 3, 6, 9>>)
    @@ ("sus2" :> <<0, 2, 7>>)
    @@ ("sus4" :> <<0, 5, 7>>)

AdjustedIntervalKeepingFifth(interval, flattenFifth) == interval

\* The interval after the flattenFifth adjustment
AdjustedInterval(interval, flattenFifth) ==
  IF flattenFifth /\ interval = 7 THEN 6 ELSE interval

\* pattern.map(interval => NOTE_NAMES[(rootIndex + adjustedInterval) % 12])
PatternNotes(rootIndex, pattern, flattenFifth) ==
  [i \in 1..Len(pattern) |->
     NoteAbove(rootIndex, AdjustedInterval(pattern[i], flattenFifth))]

FourthScaleIndexOneUp(rootScaleIndex, length) ==
  (rootScaleIndex + 4) % length

\* (rootScaleIndex + 3) % scaleNotes.length
FourthScaleIndex(rootScaleIndex, length) == (rootScaleIndex + 3) % length

\* The sus4 chord built on the diatonic 4th of the key's scale
DiatonicSus4(root, scaleNotes, rootScaleIndex, flattenFifth) ==
  LET fourthScaleIndex == FourthScaleIndex(rootScaleIndex, Len(scaleNotes))
      diatonicFourth   == scaleNotes[fourthScaleIndex + 1]
      fifthIndex       == IndexOf(NOTE_NAMES, root)
      fifthNote        == NoteAbove(fifthIndex, 7)
      flattenedFifthIndex == IndexOf(NOTE_NAMES, fifthNote)
      flattenedFifthNote  == NoteAbove(flattenedFifthIndex - 1 + 12, 0)
  IN  <<root, diatonicFourth,
        IF flattenFifth THEN flattenedFifthNote ELSE fifthNote>>

\* key is null (or '') when no key context is given
getChordNotes(root, voicing, flattenFifth, key) ==
  LET rootIndex == IndexOf(NOTE_NAMES, root)
  IN  IF rootIndex = -1 THEN Throw("Invalid root note", root)
      ELSE IF voicing \notin DOMAIN CHORD_PATTERNS
      THEN Throw("Invalid voicing", voicing)
      ELSE
        LET pattern == CHORD_PATTERNS[voicing]
            plain   == Return(PatternNotes(rootIndex, pattern, flattenFifth))
        IN  IF voicing = "sus4" /\ key # Null
            THEN LET scale == getScaleNotes(key, "major")
                 IN  IF Throws(scale) THEN scale
                     ELSE LET rootScaleIndex == IndexOf(scale[2], root)
                          IN  IF rootScaleIndex # -1
                              THEN Return(DiatonicSus4(root, scale[2],
                                                       rootScaleIndex,
                                                       flattenFifth))
                              ELSE plain
            ELSE plain

semitoneToFunction ==
  <<"1", "b2", "2", "b3", "3", "4", "b5", "5", "#5", "6", "b7", "7">>

\* intervalIndex < functionNames.length: functionNames is an object literal,
\* its length is undefined and the comparison is false
IsStandardChordTone(intervalIndex) == FALSE

\* The label once note, root and voicing are known and the distance is in
\* the pattern
FunctionLabel(voicing, semitones, pattern, intervalIndex) ==
  IF voicing = "sus2" /\ semitones = 0 THEN "1"
  ELSE IF voicing = "sus2" /\ semitones = 2 THEN "2"
  ELSE IF voicing = "sus2" /\ semitones = 7 THEN "5"
  ELSE IF voicing = "sus4" /\ semitones = 0 THEN "1"
  ELSE IF voicing = "sus4" /\ semitones = 5 THEN "4"
  ELSE IF voicing = "sus4" /\ semitones = 7 THEN "5"
  ELSE IF IsStandardChordTone(intervalIndex)
          /\ semitones = pattern[intervalIndex + 1]
  THEN semitoneToFunction[semitones + 1]
  ELSE semitoneToFunction[semitones + 1]

getChordFunction(note, chordRoot, voicing) ==
  LET rootIndex == IndexOf(NOTE_NAMES, chordRoot)
      noteIndex == IndexOf(NOTE_NAMES, note)
  IN  IF rootIndex = -1 \/ noteIndex = -1 THEN Null
      ELSE
        LET semitones == (noteIndex - rootIndex + 12) % 12
        IN  IF voicing \notin DOMAIN CHORD_PATTERNS THEN Null
            ELSE LET pattern       == CHORD_PATTERNS[voicing]
                     intervalIndex == IndexOf(pattern, semitones)
                 IN  IF intervalIndex = -1 THEN Null
                     ELSE FunctionLabel(voicing, semitones, pattern,
                                        intervalIndex)

\* ------------------------------------------------------------------------
\* fretCalculator: STRING_TUNINGS, getNoteAtFret, getNoteWithOctaveAtFret,
\* getScalePositions
\* ------------------------------------------------------------------------

STRING_TUNINGS ==
  << [name |-> "E", midi |-> 64], [name |-> "B", midi |-> 59],
     [name |-> "G", midi |-> 55], [name |-> "D", midi |-> 50],
     [name |-> "A", midi |-> 45], [name |-> "E", midi |-> 40] >>

getNoteAtFret(stringIndex, fret) ==
  LET stringTuning  == STRING_TUNINGS[stringIndex + 1]
      openNoteIndex == IndexOf(NOTE_NAMES, stringTuning.name)
  IN  NoteAbove(openNoteIndex, fret)

OctaveOfNoOffset(midiNote) == midiNote \div 12

\* Math.floor(midiNote / 12) - 1
OctaveOf(midiNote) == (midiNote \div 12) - 1

getNoteWithOctaveAtFret(stringIndex, fret) ==
  LET stringTuning  == STRING_TUNINGS[stringIndex + 1]
      openNoteIndex == IndexOf(NOTE_NAMES, stringTuning.name)
      midiNote      == stringTuning.midi + fret
  IN  [note |-> NoteAbove(openNoteIndex, fret), octave |-> OctaveOf(midiNote)]

RECURSIVE FretLoopBelowMax(_, _, _, _)
FretLoopBelowMax(scaleNoteSet, stringIndex, fret, maxFrets) ==
  IF ~(fret < maxFrets) THEN <<>>
  ELSE LET note == NoteAbove(IndexOf(NOTE_NAMES,
                                     STRING_TUNINGS[stringIndex + 1].name),
                             fret)
           rest == FretLoopBelowMax(scaleNoteSet, stringIndex, fret + 1,
                                    maxFrets)
       IN  IF note \in scaleNoteSet
           THEN <<[stringIndex |-> stringIndex, fret |-> fret, note |-> note]>>
                  \o rest
           ELSE rest

\* The fret loop of getScalePositions on one string
RECURSIVE FretLoop(_, _, _, _)
FretLoop(scaleNoteSet, stringIndex, fret, maxFrets) ==
  IF ~(fret <= maxFrets) THEN <<>>
  ELSE LET note == getNoteAtFret(stringIndex, fret)
           rest == FretLoop(scaleNoteSet, stringIndex, fret + 1, maxFrets)
       IN  IF note \in scaleNoteSet
           THEN <<[stringIndex |-> stringIndex, fret |-> fret, note |-> note]>>
                  \o rest
           ELSE rest

\* The string loop of getScalePositions
RECURSIVE StringLoop(_, _, _)
StringLoop(scaleNoteSet, stringIndex, maxFrets) ==
  IF ~(stringIndex < Len(STRING_TUNINGS)) THEN <<>>
  ELSE FretLoop(scaleNoteSet, stringIndex, 0, maxFrets)
         \o StringLoop(scaleNoteSet, stringIndex + 1, maxFrets)

getScalePositions(scaleNotes, maxFrets) ==
  LET scaleNoteSet == {scaleNotes[i] : i \in 1..Len(scaleNotes)}
  IN  StringLoop(scaleNoteSet, 0, maxFrets)

\* ------------------------------------------------------------------------
\* chords: getSeventhChordsFromKey; App: the chord context
\* ------------------------------------------------------------------------

\* The ° character of the labels
DegreeSign == "(o)"

SeventhVoicingsDominantFourth ==
  <<"maj7", "m7", "m7", "7", "7", "m7", "half-diminished">>

SeventhVoicings ==
  <<"maj7", "m7", "m7", "maj7", "7", "m7", "half-diminished">>

SeventhDegrees == <<"I", "ii", "iii", "IV", "V", "vi", "vii">>

\* The chord descriptors {degree, note, voicing} of a major key (the label
\* field is not read by the App)
getSeventhChordsFromKey(key) ==
  LET scale == getScaleNotes(key, "major")
  IN  IF Throws(scale) THEN scale
      ELSE Return([index \in 1..Len(scale[2]) |->
                     [degree  |-> SeventhDegrees[index],
                      note    |-> scale[2][index],
                      voicing |-> SeventhVoicings[index]]])

\* seventhChords.find(chord => chord.degree === degree): the 1-based place of
\* the first such chord, 0 when find gives undefined
FindByDegree(chords, degree) ==
  LET found == {i \in 1..Len(chords) : chords[i].degree = degree}
  IN  IF found = {} THEN 0 ELSE SetMin(found)

\* seventhChords.find(chord => chord.note === note)
FindByNote(chords, note) ==
  LET found == {i \in 1..Len(chords) : chords[i].note = note}
  IN  IF found = {} THEN 0 ELSE SetMin(found)

getFlavorFromVoicing(voicing, useSevenths) ==
  IF useSevenths
  THEN IF voicing = "maj7" THEN "maj7"
       ELSE IF voicing = "m7" THEN "m7"
       ELSE IF voicing = "7" THEN "7"
       ELSE IF voicing = "half-diminished" THEN "dim"
       ELSE ""
  ELSE IF voicing = "maj7" \/ voicing = "7" THEN "Major"
       ELSE IF voicing = "m7" THEN "minor"
       ELSE IF voicing = "half-diminished" THEN "diminished"
       ELSE ""

flavorToVoicing ==
  ("maj7" :> "maj7") @@ ("m7" :> "m7") @@ ("7" :> "7")
    @@ ("dim" :> "half-diminished") @@ ("Major" :> "Major")
    @@ ("minor" :> "minor") @@ ("diminished" :> "diminished")
    @@ ("sus2" :> "sus2") @@ ("sus4" :> "sus4")

ActualVoicingUnmapped(voicing) == voicing

\* flavorToVoicing[voicing] || voicing
ActualVoicing(voicing) ==
  IF voicing \in DOMAIN flavorToVoicing THEN flavorToVoicing[voicing]
  ELSE voicing

\* selectedFlavor || getFlavorFromVoicing(selectedChord.voicing, useSevenths)
VoicingChoice(selectedFlavor, chordVoicing, useSevenths) ==
  IF selectedFlavor # "" THEN selectedFlavor
  ELSE getFlavorFromVoicing(chordVoicing, useSevenths)

FlattenedRootUnchanged(rootNote, flattenRoot) == rootNote

\* NOTE_NAMES[(rootIndex - 1 + 12) % 12] when flattenRoot is set
FlattenedRoot(rootNote, flattenRoot) ==
  IF flattenRoot
  THEN NOTE_NAMES[((IndexOf(NOTE_NAMES, rootNote) - 1 + 12) % 12) + 1]
  ELSE rootNote

toLowercaseRoman(roman) ==
  IF roman = "I" THEN "i"
  ELSE IF roman = "IV" THEN "iv"
  ELSE IF roman = "V" THEN "v"
  ELSE roman

\* The voicing suffix of the roman numeral
RomanSuffix(actualVoicing, useSevenths) ==
  IF useSevenths
  THEN IF actualVoicing = "maj7" THEN "maj7"
       ELSE IF actualVoicing = "m7" THEN "m7"
       ELSE IF actualVoicing = "7" THEN "7"
       ELSE IF actualVoicing = "half-diminished" THEN DegreeSign
       ELSE ""
  ELSE IF actualVoicing = "Major" THEN ""
       ELSE IF actualVoicing = "minor" THEN "m"
       ELSE IF actualVoicing = "diminished" THEN DegreeSign
       ELSE IF actualVoicing = "sus2" THEN "sus2"
       ELSE IF actualVoicing = "sus4" THEN "sus4"
       ELSE ""

\* flattenedChord ? flattenedChord.degree : selectedChord.degree
RomanDegree(chords, selectedChord, rootNote) ==
  LET flattenedChord == FindByNote(chords, rootNote)
  IN  IF flattenedChord # 0 THEN chords[flattenedChord].degree
      ELSE selectedChord.degree

\* The label of the selected chord, Null when the context is off or no chord
\* has the selected degree
getSelectedChordRomanNumeral(contextEnabled, chords, selectedChordDegree, selectedFlavor, useSevenths, flattenRoot) ==
  IF ~contextEnabled THEN Null
  ELSE IF FindByDegree(chords, selectedChordDegree) = 0 THEN Null
  ELSE
    LET selectedChord == chords[FindByDegree(chords, selectedChordDegree)]
        voicing       == VoicingChoice(selectedFlavor, selectedChord.voicing,
                                       useSevenths)
        actualVoicing == ActualVoicing(voicing)
        rootNote      == FlattenedRoot(selectedChord.note, flattenRoot)
        isFlattened   == flattenRoot
        degree        == RomanDegree(chords, selectedChord, rootNote)
        isMinor       == actualVoicing = "m7" \/ actualVoicing = "minor"
        isDiminished  == actualVoicing = "half-diminished"
                           \/ actualVoicing = "diminished"
        cased         == IF isMinor \/ isDiminished
                         THEN toLowercaseRoman(degree) ELSE degree
        flatted       == IF isFlattened THEN "b" \o cased ELSE cased
    IN  flatted \o RomanSuffix(actualVoicing, useSevenths)

\* The name of the resulting chord
ChordName(rootNote, actualVoicing, voicing) ==
  IF actualVoicing = "maj7" THEN rootNote \o "maj7"
  ELSE IF actualVoicing = "m7" THEN rootNote \o "m7"
  ELSE IF actualVoicing = "7" THEN rootNote \o "7"
  ELSE IF actualVoicing = "half-diminished" THEN rootNote \o DegreeSign
  ELSE IF actualVoicing = "diminished" THEN rootNote \o DegreeSign
  ELSE IF actualVoicing = "minor" \/ voicing = "minor" THEN rootNote \o "m"
  ELSE IF actualVoicing = "Major" THEN rootNote
  ELSE IF actualVoicing = "sus2" THEN rootNote \o "sus2"
  ELSE IF actualVoicing = "sus4" THEN rootNote \o "sus4"
  ELSE rootNote

\* getResultingChord returned null
NoChord == <<"null">>

\* The resulting chord {name, notes, root, voicing}: NoChord when the context
\* is off or no chord has the selected degree, the error of getChordNotes
\* when it throws
getResultingChord(contextEnabled, chords, selectedChordDegree, selectedFlavor, useSevenths, flattenRoot, selectedKey) ==
  IF ~contextEnabled THEN NoChord
  ELSE IF FindByDegree(chords, selectedChordDegree) = 0 THEN NoChord
  ELSE
    LET selectedChord == chords[FindByDegree(chords, selectedChordDegree)]
        chosen        == VoicingChoice(selectedFlavor, selectedChord.voicing,
                                       useSevenths)
        voicing       == IF chosen = ""
                         THEN getFlavorFromVoicing(selectedChord.voicing,
                                                   useSevenths)
                         ELSE chosen
        actualVoicing == ActualVoicing(voicing)
        rootNote      == FlattenedRoot(selectedChord.note, flattenRoot)
        notesOfChord  == getChordNotes(rootNote, actualVoicing, FALSE,
                                       selectedKey)
    IN  IF Throws(notesOfChord) THEN notesOfChord
        ELSE Return([name    |-> ChordName(rootNote, actualVoicing, voicing),
                     notes   |-> notesOfChord[2],
                     root    |-> rootNote,
                     voicing |-> actualVoicing])

\* Fretboard: the label of a chord position in each display mode
getKeyFunction(note, key) ==
  LET scale == getScaleNotes(key, "major")
  IN  IF Throws(scale) THEN scale
      ELSE LET scaleIndex == IndexOf(scale[2], note)
           IN  IF scaleIndex = -1 THEN Return(Null)
               ELSE Return(<<"1", "2", "3", "4", "5", "6", "7">>[scaleIndex + 1])

styleMap ==
  ("Pentatonic" :> "pentatonic-major")
    @@ ("Blues Pentatonic" :> "pentatonic-minor")
    @@ ("Pentatonic +" :> "pentatonic-major")
    @@ ("Diatonic" :> "major")

\* styleMap[selectedStyle] || 'pentatonic-major'
ActualStyle(selectedStyle) ==
  IF selectedStyle \in DOMAIN styleMap THEN styleMap[selectedStyle]
  ELSE "pentatonic-major"

\* Fretboard: the label of a position of the context chord; chord is the
\* outcome of getResultingChord
getChordPositionLabel(note, chord, displayMode, selectedKey) ==
  IF chord = NoChord THEN Return(Null)
  ELSE IF displayMode = "note" THEN Return(note)
  ELSE IF displayMode = "chord"
  THEN LET voicing   == IF chord[2].voicing # "" THEN chord[2].voicing
                        ELSE "Major"
           chordRoot == IF chord[2].root # "" THEN chord[2].root ELSE note
       IN  Return(getChordFunction(note, chordRoot, voicing))
  ELSE IF displayMode = "key" THEN getKeyFunction(note, selectedKey)
  ELSE Return(Null)

KEYS == NOTE_NAMES

\* ------------------------------------------------------------------------
\* State
\* ------------------------------------------------------------------------

VARIABLES
  \* App component state (useState)
  pastedTabText, tabText, error, projectTabToFretboard, currentTabPosition,
  currentTabPositionIndex,
  \* TabRibbon component state
  isDragging,
  \* passive effects (useEffect) scheduled by the last commit, not yet run
  pendingEffects,
  \* history: the last handler that ran and the index it started from, the
  \* notes of each playback since a handler last set lastOp
  lastOp, prevIndex, played,
  \* a direct call of extractTabContent: the input text, the blocks it was
  \* written from, the result, and the result of extracting the result
  text, blocks, extracted, reextracted, pcExtract,
  \* a direct call of findUniqueCharacterPositions on a ribbon
  ribbon, uniquePositions, pcRibbon,
  \* a direct call of isValidTabText on text
  valid, pcValid,
  \* a direct call of parseNotesAtColumn on ribbon at column
  column, notes, pcNotes,
  \* direct calls of the scale, chord and fret functions: the arguments and
  \* the outcome of each call
  args, chordFunction, chordNotes, scaleNotes, scalePositions, noteAtFret,
  noteWithOctave, seventhChords, seventhChordNotes,
  \* App component state of the scale and chord context controls (useState)
  selectedKey, selectedStyle, contextEnabled, selectedChordDegree,
  useSevenths, selectedFlavor, flattenRoot, flavorManuallySet, displayMode,
  \* the context effects (useEffect) scheduled by the last commit, not yet run
  contextEffects

appVars == <<pastedTabText, tabText, error, projectTabToFretboard,
             currentTabPosition, currentTabPositionIndex, isDragging,
             pendingEffects, lastOp, prevIndex, played>>

extractVars == <<text, blocks, extracted, reextracted, pcExtract>>

ribbonVars == <<ribbon, uniquePositions, pcRibbon>>

validVars == <<valid, pcValid>>

notesVars == <<column, notes, pcNotes>>

theoryVars == <<args, chordFunction, chordNotes, scaleNotes, scalePositions,
                noteAtFret, noteWithOctave, seventhChords, seventhChordNotes>>

contextVars == <<selectedKey, selectedStyle, contextEnabled,
                 selectedChordDegree, useSevenths, selectedFlavor,
                 flattenRoot, flavorManuallySet, displayMode, contextEffects>>

vars == <<appVars, extractVars, ribbonVars, validVars, notesVars, theoryVars,
          contextVars>>

\* ------------------------------------------------------------------------
\* Texts the model pastes, extracts and scans
\* ------------------------------------------------------------------------

\* One tab line: string letter, pipe, content
TabLine(letter, content) == <<letter, "|">> \o content

\* Six lines E,B,G,D,A,E with the given contents, joined by newlines
SixLines(contents) ==
  Join([i \in 1..6 |-> TabLine(stringNames[i], contents[i])])

Dashes(n) == [i \in 1..n |-> "-"]

\* A tab with three positions, one of them a two-digit fret
PasteRiff ==
  SixLines(<< <<"-", "5", "-", "1", "2">>, Dashes(5),
              <<"-", "-", "7", "-", "-">>, Dashes(5), Dashes(5), Dashes(5) >>)

\* A tab without any fret number
PasteRests == SixLines([i \in 1..6 |-> Dashes(2)])

\* A tab whose first line is shorter than the lines carrying the frets,
\* under a header line
PasteShortFirst ==
  <<"x", "y", NL>> \o
  SixLines(<< Dashes(1), <<"-", "5", "-", "7">>, Dashes(1), Dashes(1),
              Dashes(1), Dashes(1) >>)

\* Only two string lines
PasteTwoLines ==
  Join(<< TabLine("E", <<"-", "5">>), TabLine("B", <<"-", "7">>) >>)

\* Five of the six strings (no second E line)
PasteFiveStrings ==
  Join([i \in 1..5 |-> TabLine(stringNames[i], <<"-", "3">>)])

\* Two blocks under each other: the first without its B line, the second
\* complete
PasteLateString ==
  Join([i \in 1..5 |->
          TabLine(stringNames[IF i = 1 THEN 1 ELSE i + 1], <<"-", "3">>)]
       \o << <<>> >>
       \o [i \in 1..6 |-> TabLine(stringNames[i], <<"5", "-">>)])

PasteProse == <<"x", "y", NL, "z">>

PasteBlank == <<" ", NL>>

PasteInputs ==
  {<<>>, PasteRiff, PasteRests, PasteShortFirst, PasteTwoLines,
   PasteFiveStrings, PasteLateString, PasteProse, PasteBlank}

\* All strings over an alphabet of length at most n
StringsUpTo(alphabet, n) == UNION {[1..k -> alphabet] : k \in 0..n}

\* Bound: the number of lines of a free-form pasted text
MaxFreeLines == 3

\* Bound: the number of blocks of a block-structured pasted text
MaxBlocks == 2

\* Bound: the number of columns of the two varied lines of a scanned ribbon
MaxCols == 3

\* Lines a free-form text is written from: tab lines in either case, a
\* repeated string, an indented line, lines that do not qualify (a technique
\* letter right after the pipe, nothing after the pipe, prose, a blank line)
FreeLines ==
  { TabLine("E", <<"-", "5">>), TabLine("e", <<"1", "2">>),
    TabLine("B", <<"-">>), TabLine("B", <<"2">>),
    TabLine("G", <<"7", "-">>), TabLine("A", <<"h">>), TabLine("E", <<>>),
    <<" ">> \o TabLine("D", <<"-", "3">>) \o <<" ">>,
    <<"x", "y">>, <<>> }

FreeTexts == {Join(ls) : ls \in StringsUpTo(FreeLines, MaxFreeLines)}

\* The contents a block gives its strings: string s of a block with rotation
\* r gets Pieces[((s + r) % 4) + 1]
Pieces ==
  << <<"-", "5">>, <<"1", "2", "-">>, <<"-">>, <<"|", "-", "7", "h">> >>

BlockContent(block, s) == Pieces[((s + block.rot) % Len(Pieces)) + 1]

\* A block lists the strings E,B,G,D,A,E in order, omitting at most one
\* (omit = -1: none)
Blocks == [omit : -1..5, rot : 0..1]

Separators == {"none", "blank", "prose"}

BlockLines(block) ==
  LET kept == SelectSeq(<<0, 1, 2, 3, 4, 5>>, LAMBDA s : s # block.omit)
  IN  [k \in 1..Len(kept) |->
         TabLine(stringNames[kept[k] + 1], BlockContent(block, kept[k]))]

SeparatorLines(sep) ==
  CASE sep = "none" -> <<>>
    [] sep = "blank" -> << <<>> >>
    [] sep = "prose" -> << <<"x", "y">> >>

\* The text of a sequence of blocks: a separator before each block
RECURSIVE BlockTextLines(_, _)
BlockTextLines(bs, sep) ==
  IF bs = <<>> THEN <<>>
  ELSE SeparatorLines(sep) \o BlockLines(Head(bs)) \o BlockTextLines(Tail(bs), sep)

BlockText(bs, sep) == Join(BlockTextLines(bs, sep))

BlockSeqs == UNION {[1..k -> Blocks] : k \in 1..MaxBlocks}

\* Ribbons to scan: six prefixed lines; two neighbouring strings carry every
\* content up to MaxCols columns over dashes, digits and a technique letter,
\* the other four a single dash
ContentsA == StringsUpTo({"-", "1", "2"}, MaxCols)

ContentsB == StringsUpTo({"-", "2", "h"}, MaxCols)

RibbonOf(first, a, b) ==
  SixLines([i \in 1..6 |->
              IF i - 1 = first THEN a
              ELSE IF i - 1 = (first + 1) % 6 THEN b
              ELSE Dashes(1)])

RibbonInputs ==
  {RibbonOf(first, a, b) : first \in 0..5, a \in ContentsA, b \in ContentsB}

\* ------------------------------------------------------------------------
\* App: handleParseTabs, navigation, Revert to Paste; TabRibbon: snapping
\* ------------------------------------------------------------------------

NoEffects == {}

\* currentTabPosition is null or an object {column, notes}: null is the
\* empty sequence, an object the sequence of its one record
NullPosition == <<>>

PositionObject(currentColumn, currentNotes) ==
  <<[column |-> currentColumn, notes |-> currentNotes]>>

\* The playback effect is scheduled when projectTabToFretboard changed or
\* currentTabPosition was set to another value: every object the TabRibbon
\* hands over is a new one
PlaybackScheduled(oldProject, oldPosition, newProject, newPosition, wasSet) ==
  IF \/ newProject # oldProject
     \/ wasSet /\ ~(oldPosition = NullPosition /\ newPosition = NullPosition)
  THEN {"play"} ELSE {}

PleasePaste == "Please paste tab text"

CouldNotFind == "Could not find valid tab content."

\* const tabUniquePositions = tabText ? findUniqueCharacterPositions(tabText) : []
tabUniquePositions ==
  IF tabText # <<>> THEN findUniqueCharacterPositions(tabText) ELSE <<>>

\* TabRibbon: the column of the current position (0 when there is none)
CurrentColumn(positions, index) ==
  IF index + 1 \in DOMAIN positions THEN positions[index + 1].column ELSE 0

\* The effects a commit schedules: the App's reset effect when tabText
\* changed; the TabRibbon's notes effect when the ribbon is mounted and it
\* was not mounted before, or currentColumn, tabText or the number of
\* positions changed
ScheduledEffects(oldText, oldIndex, newText, newIndex) ==
  LET oldPos == IF oldText # <<>> THEN findUniqueCharacterPositions(oldText)
                ELSE <<>>
      newPos == IF newText # <<>> THEN findUniqueCharacterPositions(newText)
                ELSE <<>>
  IN  (IF newText # oldText THEN {"reset"} ELSE {})
      \cup
      (IF newText # <<>> /\ (\/ oldText # newText
                             \/ Len(oldPos) # Len(newPos)
                             \/ CurrentColumn(oldPos, oldIndex)
                                  # CurrentColumn(newPos, newIndex))
       THEN {"notes"} ELSE {})

\* A step of the App leaves the direct-call state alone
AppOnly ==
  UNCHANGED <<extractVars, ribbonVars, validVars, notesVars, theoryVars,
              contextVars>>

\* The textarea's onChange; the paste panel is rendered when !tabText
ChangePastedText(t) ==
  /\ pendingEffects = NoEffects
  /\ tabText = <<>>
  /\ t # pastedTabText
  /\ pastedTabText' = t
  /\ lastOp' = "paste"
  /\ UNCHANGED <<tabText, error, projectTabToFretboard, currentTabPosition,
                 currentTabPositionIndex, isDragging, pendingEffects,
                 prevIndex>>
  /\ played' = <<>>
  /\ AppOnly

ParseOutcomeUnvalidated(pasted, oldText, oldIndex) ==
  IF Trim(pasted) = <<>> THEN <<PleasePaste, oldText, oldIndex>>
  ELSE <<"", extractTabContent(pasted), 0>>

\* The outcome of handleParseTabs on a pasted text:
\* <<error, tabText, currentTabPositionIndex>>
ParseOutcome(pasted, oldText, oldIndex) ==
  IF Trim(pasted) = <<>> THEN <<PleasePaste, oldText, oldIndex>>
  ELSE LET extractedTab == extractTabContent(pasted)
       IN  IF ~isValidTabText(extractedTab)
           THEN <<CouldNotFind, <<>>, oldIndex>>
           ELSE <<"", extractedTab, 0>>

\* The Parse Tab button: rendered when !tabText, disabled when the pasted
\* text is blank
handleParseTabs ==
  /\ pendingEffects = NoEffects
  /\ tabText = <<>>
  /\ Trim(pastedTabText) # <<>>
  /\ LET out == ParseOutcome(pastedTabText, tabText, currentTabPositionIndex)
     IN  /\ error' = out[1]
         /\ tabText' = out[2]
         /\ currentTabPositionIndex' = out[3]
         /\ pendingEffects' =
              ScheduledEffects(tabText, currentTabPositionIndex, out[2], out[3])
  /\ lastOp' = "parse"
  /\ prevIndex' = currentTabPositionIndex
  /\ UNCHANGED <<pastedTabText, projectTabToFretboard, currentTabPosition,
                 isDragging>>
  /\ played' = <<>>
  /\ AppOnly

RevertToPasteKeepingIndex ==
  /\ pendingEffects = NoEffects
  /\ tabText # <<>>
  /\ tabText' = <<>>
  /\ pastedTabText' = <<>>
  /\ error' = ""
  /\ projectTabToFretboard' = FALSE
  /\ currentTabPosition' = NullPosition
  /\ isDragging' = FALSE
  /\ pendingEffects' =
       {"reset"} \cup PlaybackScheduled(projectTabToFretboard,
                                        currentTabPosition, FALSE,
                                        NullPosition, TRUE)
  /\ lastOp' = "revert"
  /\ prevIndex' = currentTabPositionIndex
  /\ UNCHANGED currentTabPositionIndex
  /\ played' = <<>>
  /\ AppOnly

\* The Revert to Paste button, rendered with the ribbon; the TabRibbon is
\* unmounted and its state is dropped
RevertToPaste ==
  /\ pendingEffects = NoEffects
  /\ tabText # <<>>
  /\ tabText' = <<>>
  /\ pastedTabText' = <<>>
  /\ error' = ""
  /\ projectTabToFretboard' = FALSE
  /\ currentTabPosition' = NullPosition
  /\ currentTabPositionIndex' = 0
  /\ isDragging' = FALSE
  /\ pendingEffects' =
       ScheduledEffects(tabText, currentTabPositionIndex, <<>>, 0)
         \cup PlaybackScheduled(projectTabToFretboard, currentTabPosition,
                                FALSE, NullPosition, TRUE)
  /\ lastOp' = "revert"
  /\ prevIndex' = currentTabPositionIndex
  /\ played' = <<>>
  /\ AppOnly

PreviousIndexUnchecked(index) == index - 1

\* The index after "previous": decrement unless at 0
PreviousIndex(index) == IF index > 0 THEN index - 1 ELSE index

NextIndexUnchecked(index, n) == index + 1

\* The index after "next": increment unless at the last position
NextIndex(index, n) == IF index < n - 1 THEN index + 1 ELSE index

\* A handler of the ribbon panel sets the index to newIndex
SetIndex(op, newIndex) ==
  /\ currentTabPositionIndex' = newIndex
  /\ pendingEffects' =
       ScheduledEffects(tabText, currentTabPositionIndex, tabText, newIndex)
  /\ lastOp' = op
  /\ prevIndex' = currentTabPositionIndex
  /\ UNCHANGED <<pastedTabText, tabText, error, projectTabToFretboard,
                 currentTabPosition, isDragging>>
  /\ played' = <<>>
  /\ AppOnly

\* The Previous button: disabled at index 0
handleTabPrevious ==
  /\ pendingEffects = NoEffects
  /\ tabText # <<>>
  /\ currentTabPositionIndex # 0
  /\ SetIndex("previous", PreviousIndex(currentTabPositionIndex))

\* The Next button: disabled at or past the last position
handleTabNext ==
  /\ pendingEffects = NoEffects
  /\ tabText # <<>>
  /\ ~(currentTabPositionIndex >= Len(tabUniquePositions) - 1)
  /\ SetIndex("next",
              NextIndex(currentTabPositionIndex, Len(tabUniquePositions)))

\* The index after a key press outside an input field
KeyIndex(key, index, n) ==
  IF key = "ArrowLeft" THEN PreviousIndex(index)
  ELSE IF key = "ArrowRight" THEN NextIndex(index, n)
  ELSE index

\* The window keydown listener, registered while tabText is non-empty
handleKeyDown(key, inInputField) ==
  /\ pendingEffects = NoEffects
  /\ tabText # <<>>
  /\ SetIndex(IF inInputField THEN "typing" ELSE key,
              IF inInputField THEN currentTabPositionIndex
              ELSE KeyIndex(key, currentTabPositionIndex,
                            Len(tabUniquePositions)))

\* The first non-blank line of the ribbon, as rendered in the first span
FirstLine(tabLines) ==
  LET nonBlank == SelectSeq(tabLines, NonEmptyLine)
  IN  IF nonBlank = <<>> THEN <<>> ELSE nonBlank[1]

\* findClosestPositionIndex: the indices it can return over all x. A
\* position is measured only when its character lies in the first line's
\* text node; the closest measured one wins, 0 when none is measured.
ClosestPositionIndices(ribbonText, positions, index) ==
  IF Len(positions) = 0 THEN {index}
  ELSE
    LET firstLine == FirstLine(Split(ribbonText))
        pipeIndex == IndexOf(firstLine, "|")
        measured  == {i \in 1..Len(positions) :
                        pipeIndex + 1 + positions[i].column < Len(firstLine)}
    IN  IF firstLine = <<>> \/ pipeIndex = -1 THEN {index}
        ELSE IF measured = {} THEN {0}
        ELSE {i - 1 : i \in measured}

\* A click on the tab area outside the highlight
handleTabAreaClick(closestIndex) ==
  /\ pendingEffects = NoEffects
  /\ tabText # <<>>
  /\ SetIndex("click", closestIndex)

\* Mouse down on the highlight starts a drag
handleMouseDown ==
  /\ pendingEffects = NoEffects
  /\ tabText # <<>>
  /\ ~isDragging
  /\ isDragging' = TRUE
  /\ UNCHANGED <<pastedTabText, tabText, error, projectTabToFretboard,
                 currentTabPosition, currentTabPositionIndex, pendingEffects,
                 lastOp, prevIndex>>
  /\ UNCHANGED played
  /\ AppOnly

\* Mouse move while dragging snaps to the closest position
handleGlobalMouseMove(closestIndex) ==
  /\ pendingEffects = NoEffects
  /\ tabText # <<>>
  /\ isDragging
  /\ SetIndex("drag", closestIndex)

handleGlobalMouseUp ==
  /\ pendingEffects = NoEffects
  /\ isDragging
  /\ isDragging' = FALSE
  /\ UNCHANGED <<pastedTabText, tabText, error, projectTabToFretboard,
                 currentTabPosition, currentTabPositionIndex, pendingEffects,
                 lastOp, prevIndex>>
  /\ UNCHANGED played
  /\ AppOnly

\* The Project onto Fretboard switch
ToggleProject ==
  /\ pendingEffects = NoEffects
  /\ tabText # <<>>
  /\ projectTabToFretboard' = ~projectTabToFretboard
  /\ pendingEffects' =
       PlaybackScheduled(projectTabToFretboard, currentTabPosition,
                         ~projectTabToFretboard, currentTabPosition, FALSE)
  /\ lastOp' = "project"
  /\ prevIndex' = currentTabPositionIndex
  /\ played' = <<>>
  /\ UNCHANGED <<pastedTabText, tabText, error, currentTabPosition,
                 currentTabPositionIndex, isDragging>>
  /\ AppOnly

\* parseNotesAtColumn(tabText, currentColumn).map(note =>
\*   ({...note, note: getNoteAtFret(note.stringIndex, note.fret)}))
NamedNotes(events) ==
  [i \in 1..Len(events) |->
     [stringIndex |-> events[i].stringIndex,
      fret        |-> events[i].fret,
      note        |-> getNoteAtFret(events[i].stringIndex, events[i].fret)]]

\* TabRibbon's effect: parse the notes of the current column and hand them to
\* the App (onPositionChange = setCurrentTabPosition). It runs before the
\* App's own effects of the same commit.
PositionFor(ribbonText, positions, index) ==
  IF ribbonText = <<>> \/ Len(positions) = 0 THEN NullPosition
  ELSE LET currentColumn == CurrentColumn(positions, index)
           currentNotes  ==
             NamedNotes(parseNotesAtColumn(ribbonText, currentColumn))
       IN  IF Len(currentNotes) > 0
           THEN PositionObject(currentColumn, currentNotes)
           ELSE NullPosition

NotesEffect ==
  /\ "notes" \in pendingEffects
  /\ currentTabPosition' =
       PositionFor(tabText, tabUniquePositions, currentTabPositionIndex)
  /\ pendingEffects' =
       (pendingEffects \ {"notes"})
         \cup PlaybackScheduled(projectTabToFretboard, currentTabPosition,
                                projectTabToFretboard, currentTabPosition',
                                TRUE)
  /\ UNCHANGED <<pastedTabText, tabText, error, projectTabToFretboard,
                 currentTabPositionIndex, isDragging, lastOp, prevIndex>>
  /\ UNCHANGED played
  /\ AppOnly

\* playTabPositionNotes(position): playNoteSoundMemo(stringIndex, fret) for
\* every note; nothing for null or a position without notes
PlayedNotes(position) ==
  IF position = NullPosition \/ Len(position[1].notes) = 0 THEN <<>>
  ELSE << [i \in 1..Len(position[1].notes) |->
             [stringIndex |-> position[1].notes[i].stringIndex,
              fret        |-> position[1].notes[i].fret]] >>

PlayEffectAlways ==
  /\ "play" \in pendingEffects
  /\ "notes" \notin pendingEffects
  /\ played' = played \o PlayedNotes(currentTabPosition)
  /\ pendingEffects' = pendingEffects \ {"play"}
  /\ UNCHANGED <<pastedTabText, tabText, error, projectTabToFretboard,
                 currentTabPosition, currentTabPositionIndex, isDragging,
                 lastOp, prevIndex>>
  /\ AppOnly

\* App's effect on [projectTabToFretboard, currentTabPosition]: play the
\* notes of the position while the projection is on. It runs after the
\* TabRibbon's effect of the same commit.
PlayEffect ==
  /\ "play" \in pendingEffects
  /\ "notes" \notin pendingEffects
  /\ played' =
       IF projectTabToFretboard /\ currentTabPosition # NullPosition
       THEN played \o PlayedNotes(currentTabPosition)
       ELSE played
  /\ pendingEffects' = pendingEffects \ {"play"}
  /\ UNCHANGED <<pastedTabText, tabText, error, projectTabToFretboard,
                 currentTabPosition, currentTabPositionIndex, isDragging,
                 lastOp, prevIndex>>
  /\ AppOnly

\* App's effect on [tabText]: reset the position index
ResetEffect ==
  /\ "reset" \in pendingEffects
  /\ "notes" \notin pendingEffects
  /\ currentTabPositionIndex' = 0
  /\ pendingEffects' =
       (pendingEffects \ {"reset"})
         \cup (ScheduledEffects(tabText, currentTabPositionIndex, tabText, 0)
                 \ {"reset"})
  /\ UNCHANGED <<pastedTabText, tabText, error, projectTabToFretboard,
                 currentTabPosition, isDragging, lastOp, prevIndex>>
  /\ UNCHANGED played
  /\ AppOnly

Keys == {"ArrowLeft", "ArrowRight", "Enter"}

\* The indices findClosestPositionIndex can return in the current state
ClosestNow ==
  ClosestPositionIndices(tabText, tabUniquePositions, currentTabPositionIndex)

\* The App after its first render: every useState at its initial value, the
\* reset effect of the mount still to run
AppInit ==
  /\ pastedTabText = <<>>
  /\ tabText = <<>>
  /\ error = ""
  /\ projectTabToFretboard = FALSE
  /\ currentTabPosition = NullPosition
  /\ currentTabPositionIndex = 0
  /\ isDragging = FALSE
  /\ pendingEffects = {"play", "reset"}
  /\ lastOp = "mount"
  /\ prevIndex = 0
  /\ played = <<>>

ExtractIdle ==
  /\ text = <<>> /\ blocks = <<>> /\ extracted = <<>> /\ reextracted = <<>>
  /\ pcExtract = "idle"

RibbonIdle ==
  /\ ribbon = <<>> /\ uniquePositions = <<>> /\ pcRibbon = "idle"

ValidIdle == valid = FALSE /\ pcValid = "idle"

NotesIdle == column = 0 /\ notes = <<>> /\ pcNotes = "idle"

NotCalled == <<"not called">>

\* No call of a theory function made yet
TheoryNotCalled ==
  /\ chordFunction = NotCalled
  /\ chordNotes = [flattenFifth \in BOOLEAN |-> NotCalled]
  /\ scaleNotes = NotCalled
  /\ scalePositions = NotCalled
  /\ noteAtFret = [octaves \in {0, 1} |-> NotCalled]
  /\ noteWithOctave = [octaves \in {0, 1} |-> NotCalled]
  /\ seventhChords = NotCalled
  /\ seventhChordNotes = NotCalled

TheoryIdle == args = [fn |-> "idle"] /\ TheoryNotCalled

\* The initial values of the context controls
ContextInitial ==
  /\ selectedKey = "C"
  /\ selectedStyle = "Pentatonic"
  /\ contextEnabled = FALSE
  /\ selectedChordDegree = "I"
  /\ useSevenths = TRUE
  /\ selectedFlavor = ""
  /\ flattenRoot = FALSE
  /\ flavorManuallySet = FALSE
  /\ displayMode = "note"

ContextIdle == ContextInitial /\ contextEffects = {}

PureIdle == ValidIdle /\ NotesIdle /\ TheoryIdle /\ ContextIdle

Init == AppInit /\ ExtractIdle /\ RibbonIdle /\ PureIdle

Next ==
  \/ \E t \in PasteInputs : ChangePastedText(t)
  \/ handleParseTabs
  \/ RevertToPaste
  \/ handleTabPrevious
  \/ handleTabNext
  \/ \E key \in Keys, inInputField \in BOOLEAN : handleKeyDown(key, inInputField)
  \/ \E closestIndex \in ClosestNow : handleTabAreaClick(closestIndex)
  \/ handleMouseDown
  \/ \E closestIndex \in ClosestNow : handleGlobalMouseMove(closestIndex)
  \/ handleGlobalMouseUp
  \/ ToggleProject
  \/ NotesEffect
  \/ PlayEffect
  \/ ResetEffect

\* The App and its TabRibbon under user events
Spec == Init /\ [][Next]_vars

\* The effects of the App and its TabRibbon
EffectNames == {"notes", "play", "reset"}

\* A step in which a scheduled effect runs, seen on pendingEffects alone:
\* only NotesEffect takes "notes" out of it, only PlayEffect "play" and only
\* ResetEffect "reset"
NotesEffectRuns ==
  /\ "notes" \in pendingEffects
  /\ pendingEffects' \in SUBSET (EffectNames \ {"notes"})

PlayEffectRuns ==
  /\ "play" \in pendingEffects
  /\ "notes" \notin pendingEffects
  /\ pendingEffects' \in SUBSET (EffectNames \ {"play"})

ResetEffectRuns ==
  /\ "reset" \in pendingEffects
  /\ "notes" \notin pendingEffects
  /\ pendingEffects' \in SUBSET (EffectNames \ {"reset"})

\* React runs every scheduled effect after the commit that scheduled it,
\* before it handles the next event
SpecLive ==
  /\ Spec
  /\ WF_pendingEffects(NotesEffectRuns)
  /\ WF_pendingEffects(PlayEffectRuns)
  /\ WF_pendingEffects(ResetEffectRuns)

\* ------------------------------------------------------------------------
\* Direct calls of extractTabContent
\* ------------------------------------------------------------------------

ExtractInit ==
  /\ AppInit
  /\ RibbonIdle
  /\ PureIdle
  /\ \/ text \in FreeTexts /\ blocks = <<>>
     \/ \E bs \in BlockSeqs, sep \in Separators :
          text = BlockText(bs, sep) /\ blocks = bs
  /\ extracted = <<>>
  /\ reextracted = <<>>
  /\ pcExtract = "input"

\* extracted = extractTabContent(text)
CallExtract ==
  /\ pcExtract = "input"
  /\ extracted' = extractTabContent(text)
  /\ pcExtract' = "extracted"
  /\ UNCHANGED <<text, blocks, reextracted, appVars, ribbonVars, validVars,
                 notesVars, theoryVars, contextVars>>

\* reextracted = extractTabContent(extracted)
CallExtractAgain ==
  /\ pcExtract = "extracted"
  /\ reextracted' = extractTabContent(extracted)
  /\ pcExtract' = "reextracted"
  /\ UNCHANGED <<text, blocks, extracted, appVars, ribbonVars, validVars,
                 notesVars, theoryVars, contextVars>>

ExtractNext == CallExtract \/ CallExtractAgain

SpecExtract == ExtractInit /\ [][ExtractNext]_vars

\* ------------------------------------------------------------------------
\* Direct calls of findUniqueCharacterPositions
\* ------------------------------------------------------------------------

RibbonInit ==
  /\ AppInit
  /\ ExtractIdle
  /\ PureIdle
  /\ ribbon \in RibbonInputs
  /\ uniquePositions = <<>>
  /\ pcRibbon = "input"

\* uniquePositions = findUniqueCharacterPositions(ribbon)
CallFindPositions ==
  /\ pcRibbon = "input"
  /\ uniquePositions' = findUniqueCharacterPositions(ribbon)
  /\ pcRibbon' = "positions"
  /\ UNCHANGED <<ribbon, appVars, extractVars, validVars, notesVars,
                 theoryVars, contextVars>>

RibbonNext == CallFindPositions

SpecRibbon == RibbonInit /\ [][RibbonNext]_vars

\* ------------------------------------------------------------------------
\* Direct calls of isValidTabText
\* ------------------------------------------------------------------------

\* Bound: the number of lines of a text handed to isValidTabText
MaxValidLines == 4

\* Lines of such a text: tab lines, one of them indented, a string-prefixed
\* line with a technique letter right after the pipe, prose, an empty line
\* and a line of white space
ValidLines ==
  { TabLine("E", <<"-", "5">>), TabLine("b", <<"2">>),
    <<" ">> \o TabLine("D", <<"-", "3">>) \o <<" ">>,
    TabLine("A", <<"h">>), <<"x", "y">>, <<>>, <<" ">> }

ValidTexts == {Join(ls) : ls \in StringsUpTo(ValidLines, MaxValidLines)}

ValidInit ==
  /\ AppInit
  /\ RibbonIdle
  /\ NotesIdle
  /\ TheoryIdle
  /\ ContextIdle
  /\ text \in ValidTexts
  /\ blocks = <<>> /\ extracted = <<>> /\ reextracted = <<>>
  /\ pcExtract = "idle"
  /\ valid = FALSE
  /\ pcValid = "input"

\* valid = isValidTabText(text)
CallIsValid ==
  /\ pcValid = "input"
  /\ valid' = isValidTabText(text)
  /\ pcValid' = "valid"
  /\ UNCHANGED <<appVars, extractVars, ribbonVars, notesVars, theoryVars,
                 contextVars>>

ValidNext == CallIsValid

SpecValid == ValidInit /\ [][ValidNext]_vars

\* ------------------------------------------------------------------------
\* Direct calls of parseNotesAtColumn and findUniqueCharacterPositions on
\* the same text
\* ------------------------------------------------------------------------

\* The contents of the second varied string: a leading zero, a technique
\* letter before a digit, a line longer than the others
NoteContentsB ==
  { Dashes(1), <<"h", "2">>, <<"0", "5", "-", "7">> }

\* A line with a pipe and a digit but no string letter (a bar number)
BarNumberLine == <<"x", "|", "5">>

\* Texts that are no ribbon: empty, blank, prose, a bar number line, two
\* strings only, a ribbon under a header
NoRibbonInputs ==
  {<<>>, PasteBlank, PasteProse, BarNumberLine, PasteTwoLines, PasteShortFirst}

NotesInputs ==
  {RibbonOf(first, a, b) : first \in 0..5, a \in ContentsA, b \in NoteContentsB}
    \cup NoRibbonInputs

\* The columns asked for: one before the first, and up to one past the
\* longest line
ColumnInputs == -1..(MaxCols + 2)

NotesInit ==
  /\ AppInit
  /\ ExtractIdle
  /\ ValidIdle
  /\ TheoryIdle
  /\ ContextIdle
  /\ ribbon \in NotesInputs
  /\ uniquePositions = <<>>
  /\ pcRibbon = "input"
  /\ column \in ColumnInputs
  /\ notes = <<>>
  /\ pcNotes = "input"

\* notes = parseNotesAtColumn(ribbon, column)
CallParseNotes ==
  /\ pcNotes = "input"
  /\ notes' = parseNotesAtColumn(ribbon, column)
  /\ pcNotes' = "notes"
  /\ UNCHANGED <<column, appVars, extractVars, ribbonVars, validVars,
                 theoryVars, contextVars>>

NotesNext == CallParseNotes \/ CallFindPositions

SpecNotes == NotesInit /\ [][NotesNext]_vars

\* ------------------------------------------------------------------------
\* The pipeline on one text: extractTabContent, then
\* findUniqueCharacterPositions on the ribbon, then parseNotesAtColumn at the
\* column of a position
\* ------------------------------------------------------------------------

\* Bound: the number of lines of a text sent through the pipeline
MaxPipelineLines == 3

\* Lines of these texts: fret numbers with a leading zero, of two digits and
\* of one digit, a rest, a line that does not qualify
PipelineLines ==
  { TabLine("E", <<"0", "5">>), TabLine("B", <<"-", "7">>),
    TabLine("G", <<"1", "0", "-">>), TabLine("D", <<"3">>),
    TabLine("e", <<"-">>), <<"x", "y">> }

PipelineTexts ==
  {Join(ls) : ls \in StringsUpTo(PipelineLines, MaxPipelineLines)}

PipelineInit ==
  /\ AppInit
  /\ RibbonIdle
  /\ PureIdle
  /\ text \in PipelineTexts
  /\ blocks = <<>>
  /\ extracted = <<>>
  /\ reextracted = <<>>
  /\ pcExtract = "input"

\* uniquePositions = findUniqueCharacterPositions(extracted)
ScanExtracted ==
  /\ pcExtract = "extracted"
  /\ pcRibbon = "idle"
  /\ ribbon' = extracted
  /\ uniquePositions' = findUniqueCharacterPositions(extracted)
  /\ pcRibbon' = "positions"
  /\ UNCHANGED <<appVars, extractVars, validVars, notesVars, theoryVars,
                 contextVars>>

\* notes = parseNotesAtColumn(ribbon, uniquePositions[index].column)
ReadPosition(index) ==
  /\ pcRibbon = "positions"
  /\ index \in 1..Len(uniquePositions)
  /\ column' = uniquePositions[index].column
  /\ notes' = parseNotesAtColumn(ribbon, uniquePositions[index].column)
  /\ pcNotes' = "notes"
  /\ UNCHANGED <<appVars, extractVars, ribbonVars, validVars, theoryVars,
                 contextVars>>

PipelineNext ==
  \/ CallExtract
  \/ ScanExtracted
  \/ \E index \in 1..(MaxPipelineLines + 1) : ReadPosition(index)

SpecPipeline == PipelineInit /\ [][PipelineNext]_vars

\* ------------------------------------------------------------------------
\* Direct calls of the scale, chord and fret functions
\* ------------------------------------------------------------------------

\* Note names handed in: the twelve names and one that is none
NoteInputs == {NOTE_NAMES[i] : i \in 1..12} \cup {"H"}

\* Voicings and scale styles handed in: the known ones and an unknown one
VoicingInputs == (DOMAIN CHORD_PATTERNS) \cup {"aug"}

StyleInputs == (DOMAIN SCALE_PATTERNS) \cup {"lydian"}

\* Key contexts handed in: a note name, a name that is none, or no key
KeyInputs == NoteInputs \cup {Null}

\* Bound: the largest fret and the largest maxFrets handed in
MaxFretInput == 13

\* Note lists handed to getScalePositions: scales, a single note, a note
\* listed twice, no note, a name that is no note
ScaleNotesInputs ==
  { <<>>, <<"E">>, <<"C", "C">>, <<"H">> }
    \cup { getScaleNotes(k, st)[2] :
             k \in {"C", "A", "F#"}, st \in {"major", "pentatonic", "blues"} }

ChordFunctionArgs ==
  [fn : {"getChordFunction"}, note : NoteInputs, chordRoot : NoteInputs,
   voicing : VoicingInputs]

ChordNotesArgs ==
  [fn : {"getChordNotes"}, root : NoteInputs, voicing : VoicingInputs,
   key : KeyInputs]

ScaleNotesArgs ==
  [fn : {"getScaleNotes"}, key : NoteInputs, scaleStyle : StyleInputs]

ScalePositionsArgs ==
  [fn : {"getScalePositions"}, scaleNotes : ScaleNotesInputs,
   maxFrets : 0..MaxFretInput]

NoteAtFretArgs ==
  [fn : {"getNoteAtFret"}, stringIndex : 0..5, fret : 0..MaxFretInput]

SeventhChordsArgs == [fn : {"getSeventhChordsFromKey"}, key : NoteInputs]

TheoryInit ==
  /\ AppInit
  /\ ExtractIdle
  /\ RibbonIdle
  /\ ValidIdle
  /\ NotesIdle
  /\ ContextIdle
  /\ TheoryNotCalled
  /\ args \in ChordFunctionArgs \cup ChordNotesArgs \cup ScaleNotesArgs
                \cup ScalePositionsArgs \cup NoteAtFretArgs
                \cup SeventhChordsArgs

TheoryOnly ==
  UNCHANGED <<args, appVars, extractVars, ribbonVars, validVars, notesVars,
              contextVars>>

\* chordFunction = getChordFunction(note, chordRoot, voicing)
CallGetChordFunction ==
  /\ args.fn = "getChordFunction"
  /\ chordFunction = NotCalled
  /\ chordFunction' =
       Return(getChordFunction(args.note, args.chordRoot, args.voicing))
  /\ UNCHANGED <<chordNotes, scaleNotes, scalePositions, noteAtFret,
                 noteWithOctave,
                 seventhChords, seventhChordNotes>>
  /\ TheoryOnly

\* chordNotes[flattenFifth] = getChordNotes(root, voicing, flattenFifth, key)
CallGetChordNotes(flattenFifth) ==
  /\ args.fn = "getChordNotes"
  /\ chordNotes[flattenFifth] = NotCalled
  /\ chordNotes' =
       [chordNotes EXCEPT ![flattenFifth] =
          getChordNotes(args.root, args.voicing, flattenFifth, args.key)]
  /\ UNCHANGED <<chordFunction, scaleNotes, scalePositions, noteAtFret,
                 noteWithOctave,
                 seventhChords, seventhChordNotes>>
  /\ TheoryOnly

\* scaleNotes = getScaleNotes(key, scaleStyle)
CallGetScaleNotes ==
  /\ args.fn = "getScaleNotes"
  /\ scaleNotes = NotCalled
  /\ scaleNotes' = getScaleNotes(args.key, args.scaleStyle)
  /\ UNCHANGED <<chordFunction, chordNotes, scalePositions, noteAtFret,
                 noteWithOctave,
                 seventhChords, seventhChordNotes>>
  /\ TheoryOnly

\* scalePositions = getScalePositions(scaleNotes, maxFrets)
CallGetScalePositions ==
  /\ args.fn = "getScalePositions"
  /\ scalePositions = NotCalled
  /\ scalePositions' =
       Return(getScalePositions(args.scaleNotes, args.maxFrets))
  /\ UNCHANGED <<chordFunction, chordNotes, scaleNotes, noteAtFret,
                 noteWithOctave,
                 seventhChords, seventhChordNotes>>
  /\ TheoryOnly

\* noteAtFret[octaves] = getNoteAtFret(stringIndex, fret + 12 * octaves)
CallGetNoteAtFret(octaves) ==
  /\ args.fn = "getNoteAtFret"
  /\ noteAtFret[octaves] = NotCalled
  /\ noteAtFret' =
       [noteAtFret EXCEPT ![octaves] =
          Return(getNoteAtFret(args.stringIndex, args.fret + 12 * octaves))]
  /\ UNCHANGED <<chordFunction, chordNotes, scaleNotes, scalePositions,
                 noteWithOctave,
                 seventhChords, seventhChordNotes>>
  /\ TheoryOnly

\* noteWithOctave[octaves] =
\*   getNoteWithOctaveAtFret(stringIndex, fret + 12 * octaves)
CallGetNoteWithOctaveAtFret(octaves) ==
  /\ args.fn = "getNoteAtFret"
  /\ noteWithOctave[octaves] = NotCalled
  /\ noteWithOctave' =
       [noteWithOctave EXCEPT ![octaves] =
          Return(getNoteWithOctaveAtFret(args.stringIndex,
                                         args.fret + 12 * octaves))]
  /\ UNCHANGED <<chordFunction, chordNotes, scaleNotes, scalePositions,
                 noteAtFret,
                 seventhChords, seventhChordNotes>>
  /\ TheoryOnly

\* seventhChords = getSeventhChordsFromKey(key)
CallGetSeventhChordsFromKey ==
  /\ args.fn = "getSeventhChordsFromKey"
  /\ seventhChords = NotCalled
  /\ seventhChords' = getSeventhChordsFromKey(args.key)
  /\ UNCHANGED <<chordFunction, chordNotes, scaleNotes, scalePositions,
                 noteAtFret, noteWithOctave, seventhChordNotes>>
  /\ TheoryOnly

\* seventhChordNotes = the notes getChordNotes builds for each of the chords
CallBuildSeventhChords ==
  /\ args.fn = "getSeventhChordsFromKey"
  /\ Returns(seventhChords)
  /\ seventhChordNotes = NotCalled
  /\ seventhChordNotes' =
       Return([i \in 1..Len(seventhChords[2]) |->
                 getChordNotes(seventhChords[2][i].note,
                               seventhChords[2][i].voicing, FALSE, Null)])
  /\ UNCHANGED <<chordFunction, chordNotes, scaleNotes, scalePositions,
                 noteAtFret, noteWithOctave, seventhChords>>
  /\ TheoryOnly

TheoryNext ==
  \/ CallGetChordFunction
  \/ \E flattenFifth \in BOOLEAN : CallGetChordNotes(flattenFifth)
  \/ CallGetScaleNotes
  \/ CallGetScalePositions
  \/ \E octaves \in {0, 1} : CallGetNoteAtFret(octaves)
  \/ \E octaves \in {0, 1} : CallGetNoteWithOctaveAtFret(octaves)
  \/ CallGetSeventhChordsFromKey
  \/ CallBuildSeventhChords

SpecTheory == TheoryInit /\ [][TheoryNext]_vars

\* ------------------------------------------------------------------------
\* The scale and chord context controls of the App
\* ------------------------------------------------------------------------

ContextEffectNames == {"key", "degree", "flavor", "sevenths"}

StyleOptions == {"Pentatonic", "Blues Pentatonic", "Pentatonic +", "Diatonic"}

DisplayModes == {"note", "chord", "key"}

SeventhFlavors == {"maj7", "m7", "7", "dim"}

TriadFlavors == {"Major", "minor", "diminished", "sus2", "sus4"}

\* The flavor buttons rendered
FlavorButtons == IF useSevenths THEN SeventhFlavors ELSE TriadFlavors

contextState ==
  <<selectedKey, selectedStyle, contextEnabled, selectedChordDegree,
    useSevenths, selectedFlavor, flattenRoot, flavorManuallySet, displayMode>>

\* const seventhChords = getSeventhChordsFromKey(selectedKey)
SeventhChordsOfKey == getSeventhChordsFromKey(selectedKey)

\* const resultingChord = getResultingChord()
resultingChord ==
  IF Throws(SeventhChordsOfKey) THEN SeventhChordsOfKey
  ELSE getResultingChord(contextEnabled, SeventhChordsOfKey[2],
                         selectedChordDegree, selectedFlavor, useSevenths,
                         flattenRoot, selectedKey)

\* The chord-badge-function text
RomanNumeral ==
  getSelectedChordRomanNumeral(contextEnabled, SeventhChordsOfKey[2],
                               selectedChordDegree, selectedFlavor,
                               useSevenths, flattenRoot)

\* A state update that changes nothing renders nothing; a render schedules
\* the effects whose dependencies changed, and the flavor effect every time,
\* seventhChords being a new array in every render
ScheduledContextEffects ==
  IF contextState' = contextState THEN {}
  ELSE {"flavor"}
         \cup (IF selectedKey' # selectedKey THEN {"key"} ELSE {})
         \cup (IF selectedChordDegree' # selectedChordDegree
               THEN {"degree"} ELSE {})
         \cup (IF useSevenths' # useSevenths THEN {"sevenths"} ELSE {})

\* The flavor effect: setSelectedFlavor(autoFlavor) unless set by hand
AutoFlavor ==
  LET chordsOfKey   == SeventhChordsOfKey[2]
      selectedChord == FindByDegree(chordsOfKey, selectedChordDegree)
  IN  IF selectedChord # 0 /\ ~flavorManuallySet
      THEN getFlavorFromVoicing(chordsOfKey[selectedChord].voicing,
                                useSevenths)
      ELSE selectedFlavor

ContextOnly ==
  UNCHANGED <<appVars, extractVars, ribbonVars, validVars, notesVars,
              theoryVars>>

\* The effects of one commit, run in order on the values of that render
RunContextEffects ==
  /\ contextEffects # {}
  /\ selectedChordDegree' =
       IF "key" \in contextEffects THEN "I" ELSE selectedChordDegree
  /\ flavorManuallySet' =
       IF contextEffects \cap {"key", "degree", "sevenths"} # {} THEN FALSE
       ELSE flavorManuallySet
  /\ selectedFlavor' =
       IF "flavor" \in contextEffects THEN AutoFlavor ELSE selectedFlavor
  /\ UNCHANGED <<selectedKey, selectedStyle, contextEnabled, useSevenths,
                 flattenRoot, displayMode>>
  /\ contextEffects' = ScheduledContextEffects
  /\ ContextOnly

\* onChange of the key select
SelectKey(newKey) ==
  /\ contextEffects = {}
  /\ selectedKey' = newKey
  /\ UNCHANGED <<selectedStyle, contextEnabled, selectedChordDegree,
                 useSevenths, selectedFlavor, flattenRoot, flavorManuallySet,
                 displayMode>>
  /\ contextEffects' = ScheduledContextEffects
  /\ ContextOnly

\* onChange of the style select
SelectStyle(newStyle) ==
  /\ contextEffects = {}
  /\ selectedStyle' = newStyle
  /\ UNCHANGED <<selectedKey, contextEnabled, selectedChordDegree,
                 useSevenths, selectedFlavor, flattenRoot, flavorManuallySet,
                 displayMode>>
  /\ contextEffects' = ScheduledContextEffects
  /\ ContextOnly

\* onClick of a display mode button; Chord Functions is rendered only with
\* the context on
SetDisplayMode(mode) ==
  /\ contextEffects = {}
  /\ mode = "chord" => contextEnabled
  /\ displayMode' = mode
  /\ UNCHANGED <<selectedKey, selectedStyle, contextEnabled,
                 selectedChordDegree, useSevenths, selectedFlavor,
                 flattenRoot, flavorManuallySet>>
  /\ contextEffects' = ScheduledContextEffects
  /\ ContextOnly

\* onClick of the Use Context switch
ToggleContext ==
  /\ contextEffects = {}
  /\ contextEnabled' = ~contextEnabled
  /\ UNCHANGED <<selectedKey, selectedStyle, selectedChordDegree,
                 useSevenths, selectedFlavor, flattenRoot, flavorManuallySet,
                 displayMode>>
  /\ contextEffects' = ScheduledContextEffects
  /\ ContextOnly

\* onChange of the Use Sevenths checkbox
ToggleSevenths ==
  /\ contextEffects = {}
  /\ contextEnabled
  /\ useSevenths' = ~useSevenths
  /\ UNCHANGED <<selectedKey, selectedStyle, contextEnabled,
                 selectedChordDegree, selectedFlavor, flattenRoot,
                 flavorManuallySet, displayMode>>
  /\ contextEffects' = ScheduledContextEffects
  /\ ContextOnly

\* onClick of the chord button of a degree
SelectDegree(degree) ==
  /\ contextEffects = {}
  /\ contextEnabled
  /\ selectedChordDegree' = degree
  /\ UNCHANGED <<selectedKey, selectedStyle, contextEnabled, useSevenths,
                 selectedFlavor, flattenRoot, flavorManuallySet, displayMode>>
  /\ contextEffects' = ScheduledContextEffects
  /\ ContextOnly

\* onClick of a flavor button: the selected flavor is de-selected
ClickFlavor(flavor) ==
  /\ contextEffects = {}
  /\ contextEnabled
  /\ flavor \in FlavorButtons
  /\ selectedFlavor' = IF selectedFlavor = flavor THEN "" ELSE flavor
  /\ flavorManuallySet' = TRUE
  /\ UNCHANGED <<selectedKey, selectedStyle, contextEnabled,
                 selectedChordDegree, useSevenths, flattenRoot, displayMode>>
  /\ contextEffects' = ScheduledContextEffects
  /\ ContextOnly

\* onChange of the Flatten Root checkbox
ToggleFlattenRoot ==
  /\ contextEffects = {}
  /\ contextEnabled
  /\ flattenRoot' = ~flattenRoot
  /\ UNCHANGED <<selectedKey, selectedStyle, contextEnabled,
                 selectedChordDegree, useSevenths, selectedFlavor,
                 flavorManuallySet, displayMode>>
  /\ contextEffects' = ScheduledContextEffects
  /\ ContextOnly

\* The App after its first render: every effect runs once on mount
ContextInit ==
  /\ AppInit
  /\ ExtractIdle
  /\ RibbonIdle
  /\ ValidIdle
  /\ NotesIdle
  /\ TheoryIdle
  /\ ContextInitial
  /\ contextEffects = ContextEffectNames

ContextNext ==
  \/ RunContextEffects
  \/ \E newKey \in {KEYS[i] : i \in 1..Len(KEYS)} : SelectKey(newKey)
  \/ \E newStyle \in StyleOptions : SelectStyle(newStyle)
  \/ \E mode \in DisplayModes : SetDisplayMode(mode)
  \/ ToggleContext
  \/ ToggleSevenths
  \/ \E degree \in {SeventhDegrees[i] : i \in 1..Len(SeventhDegrees)} :
       SelectDegree(degree)
  \/ \E flavor \in SeventhFlavors \cup TriadFlavors : ClickFlavor(flavor)
  \/ ToggleFlattenRoot

SpecContext == ContextInit /\ [][ContextNext]_vars

\* ------------------------------------------------------------------------
\* Navigation and parse pipeline properties (App, TabRibbon)
\* ------------------------------------------------------------------------

\* The number of unique positions of the stored ribbon
NumPositions == Len(tabUniquePositions)

\* C3: after any sequence of parse, revert, Previous, Next, arrow-key and
\* click/drag-snap operations the position index is an integer with
\* 0 <= index <= max(0, N-1), N the number of unique positions of the
\* stored ribbon.
C3_IndexInRange ==
  /\ currentTabPositionIndex \in Int
  /\ 0 <= currentTabPositionIndex
  /\ currentTabPositionIndex <= SetMax({0, NumPositions - 1})

\* C3 witness: ArrowRight pressed at the last of several positions
C3_Witness ==
  /\ lastOp = "ArrowRight"
  /\ NumPositions > 1
  /\ prevIndex = NumPositions - 1
  /\ currentTabPositionIndex = NumPositions - 1

\* C4 as stated: Previous at index 0 and Next at index N-1 leave the index
\* unchanged; in every other state Previous lowers and Next raises the index
\* by exactly 1, for the buttons and the arrow keys alike.
C4_AsStated ==
  /\ lastOp \in {"previous", "ArrowLeft"} =>
       currentTabPositionIndex =
         (IF prevIndex = 0 THEN prevIndex ELSE prevIndex - 1)
  /\ lastOp \in {"next", "ArrowRight"} =>
       currentTabPositionIndex =
         (IF prevIndex = NumPositions - 1 THEN prevIndex ELSE prevIndex + 1)

\* C4 amended: Previous at index 0 leaves the index unchanged and otherwise
\* lowers it by 1; Next at index N-1, or on a ribbon without positions
\* (N = 0), leaves the index unchanged and otherwise raises it by 1; for the
\* buttons and the arrow keys alike.
C4_Saturation ==
  /\ lastOp \in {"previous", "ArrowLeft"} =>
       currentTabPositionIndex =
         (IF prevIndex = 0 THEN prevIndex ELSE prevIndex - 1)
  /\ lastOp \in {"next", "ArrowRight"} =>
       currentTabPositionIndex =
         (IF prevIndex = NumPositions - 1 \/ NumPositions = 0
          THEN prevIndex ELSE prevIndex + 1)

\* C4 witness: ArrowRight on a ribbon that has no position
C4_Witness ==
  /\ lastOp = "ArrowRight"
  /\ tabText # <<>>
  /\ NumPositions = 0
  /\ currentTabPositionIndex = 0

\* C5: whenever the stored ribbon changes, the position index is 0 in the
\* first state that shows the new ribbon, whatever it was before.
C5_IndexResetWithRibbon ==
  [][tabText' # tabText => currentTabPositionIndex' = 0]_vars

\* C5 witness: the ribbon was just replaced while the index was not 0
C5_Witness ==
  /\ lastOp = "revert"
  /\ prevIndex > 0
  /\ tabText = <<>>
  /\ currentTabPositionIndex = 0
  /\ "reset" \in pendingEffects

\* C10: the stored ribbon is empty or satisfies isValidTabText; a parse whose
\* extracted text fails isValidTabText stores an empty ribbon and a non-empty
\* error message; a successful parse stores the ribbon and an empty message.
C10_StoredRibbonValid ==
  /\ tabText = <<>> \/ isValidTabText(tabText)
  /\ lastOp = "parse" =>
       LET extractedTab == extractTabContent(pastedTabText)
       IN  IF isValidTabText(extractedTab)
           THEN tabText = extractedTab /\ error = ""
           ELSE tabText = <<>> /\ error # ""

\* C10 witness: a paste with five qualifying lines was rejected
C10_Witness ==
  /\ lastOp = "parse"
  /\ pastedTabText = PasteFiveStrings
  /\ extractTabContent(pastedTabText) # <<>>
  /\ tabText = <<>>
  /\ error = CouldNotFind

\* ------------------------------------------------------------------------
\* Properties of findUniqueCharacterPositions (SpecRibbon)
\* ------------------------------------------------------------------------

\* The lines of a text without their two-character string prefix
ContentsOf(t) ==
  LET ls == Split(t) IN [i \in 1..Len(ls) |-> SubSeq(ls[i], 3, Len(ls[i]))]

\* Whether a content line has a digit at a 0-based column
DigitAt(line, col) == col < Len(line) /\ line[col + 1] \in Digits

\* The length of the run of digits of a content line starting at a column
RunLength(line, col) ==
  IF col >= Len(line) THEN 0
  ELSE SetMax({k \in 0..(Len(line) - col) :
                 \A j \in 0..(k - 1) : line[col + j + 1] \in Digits})

\* The columns of the scanned ribbon
RibbonColumns ==
  LET c == ContentsOf(ribbon)
  IN  0..(SetMax({Len(c[i]) : i \in 1..Len(c)}) - 1)

\* A column inside the range of an earlier reported position
Claimed(col) ==
  \E i \in 1..Len(uniquePositions) :
     /\ uniquePositions[i].column < col
     /\ col < uniquePositions[i].column + uniquePositions[i].width

Reported(col) ==
  \E i \in 1..Len(uniquePositions) : uniquePositions[i].column = col

\* C1: the positions returned by findUniqueCharacterPositions are strictly
\* increasing by column and never overlap: for p before q in the list,
\* p.column + p.width <= q.column.
C1_PositionsDisjoint ==
  pcRibbon = "positions" =>
    \A i, j \in 1..Len(uniquePositions) :
       i < j =>
         /\ uniquePositions[i].column < uniquePositions[j].column
         /\ uniquePositions[i].column + uniquePositions[i].width
              <= uniquePositions[j].column

\* C1 witness: a two-digit position directly followed by another position
C1_Witness ==
  /\ pcRibbon = "positions"
  /\ \E i \in 1..Len(uniquePositions) :
        /\ uniquePositions[i].width = 2
        /\ i + 1 <= Len(uniquePositions)
        /\ uniquePositions[i + 1].column = uniquePositions[i].column + 2

Qualifies(line) == TabLinePattern(Trim(line))

\* Whether a text is a ribbon: six lines prefixed E|, B|, G|, D|, A|, E|
IsRibbon(t) ==
  LET ls == Split(t)
  IN  /\ Len(ls) = 6
      /\ \A i \in 1..6 :
            Len(ls[i]) >= 2 /\ ls[i][1] = stringNames[i] /\ ls[i][2] = "|"

\* The blocks' contents of one string, in block order, with nothing for a
\* block that omits the string
RECURSIVE ExpectedContent(_, _)
ExpectedContent(bs, s) ==
  IF bs = <<>> THEN <<>>
  ELSE (IF Head(bs).omit = s THEN <<>> ELSE BlockContent(Head(bs), s))
         \o ExpectedContent(Tail(bs), s)

\* C6: extractTabContent is idempotent, also when some strings of the ribbon
\* have empty content.
C6_ExtractIdempotent ==
  pcExtract = "reextracted" => reextracted = extracted

\* C6 witness: a ribbon with an empty string line was extracted again
C6_Witness ==
  /\ pcExtract = "reextracted"
  /\ IsRibbon(extracted)
  /\ reextracted # <<>>
  /\ \E i \in 1..6 : ContentsOf(extracted)[i] = <<>>
  /\ \E i \in 1..6 : ContentsOf(extracted)[i] # <<>>

\* C7: for two sequential complete blocks, possibly separated by non-tab
\* lines, each string's ribbon content is the first block's content followed
\* by the second block's, so its length is the sum of the two lengths.
C7_TwoBlocksConcatenated ==
  (/\ pcExtract # "input"
   /\ Len(blocks) = 2
   /\ blocks[1].omit = -1
   /\ blocks[2].omit = -1) =>
    /\ IsRibbon(extracted)
    /\ \A s \in 0..5 :
          /\ ContentsOf(extracted)[s + 1] =
               BlockContent(blocks[1], s) \o BlockContent(blocks[2], s)
          /\ Len(ContentsOf(extracted)[s + 1]) =
               Len(BlockContent(blocks[1], s)) + Len(BlockContent(blocks[2], s))

\* C7 witness: two complete blocks with different contents, separated by a
\* prose line, were extracted
C7_Witness ==
  /\ pcExtract = "extracted"
  /\ Len(blocks) = 2
  /\ blocks[1].omit = -1 /\ blocks[2].omit = -1
  /\ blocks[1].rot # blocks[2].rot
  /\ Len(Split(text)) = 14
  /\ ~Qualifies(Split(text)[1])
  /\ ~Qualifies(Split(text)[8])
  /\ Len(ContentsOf(extracted)[1]) = 5

\* C8: extractTabContent returns the empty string or exactly 6 lines
\* prefixed E|, B|, G|, D|, A|, E| in that order; it returns the empty string
\* exactly when no line of the input qualifies as a tab line.
C8_RibbonShape ==
  pcExtract # "input" =>
    /\ extracted = <<>> \/ IsRibbon(extracted)
    /\ extracted = <<>> <=>
         ~\E i \in 1..Len(Split(text)) : Qualifies(Split(text)[i])

\* C8 witness: a text with one qualifying line among others gave a ribbon
C8_Witness ==
  /\ pcExtract = "extracted"
  /\ IsRibbon(extracted)
  /\ Cardinality({i \in 1..Len(Split(text)) : Qualifies(Split(text)[i])}) = 1
  /\ Len(Split(text)) = 3
  /\ ~Qualifies(Split(text)[1])

\* C9 as stated: when a block omits the line of one string (any of the six),
\* that string gets nothing for that block and every other line of that and
\* of all later blocks is appended to the ribbon line of its own string, in
\* source order.
C9_MissingStringIsEmpty ==
  (pcExtract # "input" /\ Len(blocks) >= 1) =>
    /\ IsRibbon(extracted)
    /\ \A s \in 0..5 : ContentsOf(extracted)[s + 1] = ExpectedContent(blocks, s)

\* C9 restricted to blocks that omit none of the two E lines
C9_MissingInnerString ==
  (/\ pcExtract # "input"
   /\ Len(blocks) >= 1
   /\ \A k \in 1..Len(blocks) : blocks[k].omit \notin {0, 5}) =>
    /\ IsRibbon(extracted)
    /\ \A s \in 0..5 : ContentsOf(extracted)[s + 1] = ExpectedContent(blocks, s)

\* ------------------------------------------------------------------------
\* Properties of isValidTabText (SpecValid)
\* ------------------------------------------------------------------------

\* The lines of the validated text that are not blank
NonBlankLines ==
  LET ls == Split(text)
  IN  {i \in 1..Len(ls) : \E j \in 1..Len(ls[i]) : ls[i][j] \notin WhiteSpace}

\* C11: isValidTabText returns true exactly when the text has at least 3
\* non-empty lines, every non-empty line matches the string-identifier
\* pattern (string letter, pipe, then a dash, digit or pipe) and at least one
\* line contains a tab character; for every other input, empty or blank text
\* included, it returns false.
C11_ValidExactly ==
  pcValid = "valid" =>
    LET ls == Split(text)
    IN  valid =
          (/\ Cardinality(NonBlankLines) >= 3
           /\ \A i \in NonBlankLines : Qualifies(ls[i])
           /\ \E i \in NonBlankLines : \E j \in 1..Len(ls[i]) :
                 ls[i][j] \in ({"-", "|"} \cup Digits))

\* C11 witness: three tab lines, one of them indented, around a line of
\* white space were found valid
C11_Witness ==
  /\ pcValid = "valid"
  /\ valid
  /\ Len(Split(text)) = 4
  /\ Cardinality(NonBlankLines) = 3
  /\ \E i \in 1..4 : Split(text)[i] = <<" ">>
  /\ \E i \in NonBlankLines : Split(text)[i][1] = " "

\* ------------------------------------------------------------------------
\* Properties of parseNotesAtColumn (SpecNotes)
\* ------------------------------------------------------------------------

\* The integer a string of decimal digits denotes
RECURSIVE DecimalValue(_)
DecimalValue(digits) ==
  IF digits = <<>> THEN 0
  ELSE DigitValue(Head(digits)) * 10 ^ (Len(digits) - 1)
         + DecimalValue(Tail(digits))

\* The maximal digit run of a content line starting at a column
RunAt(line, col) == SubSeq(line, col + 1, col + RunLength(line, col))

\* The strings of the scanned ribbon with a digit at the column
StruckStrings ==
  {s \in 0..5 : DigitAt(ContentsOf(ribbon)[s + 1], column)}

\* C12: parseNotesAtColumn(ribbon, column) returns one event per string whose
\* content has a digit at that column, with fret equal to the integer value
\* of the maximal digit run starting at that column on that string, no event
\* for a string with a non-digit there, and the events in ascending
\* stringIndex order.
C12_EventsPerString ==
  (pcNotes = "notes" /\ IsRibbon(ribbon) /\ column >= 0) =>
    /\ Len(notes) = Cardinality(StruckStrings)
    /\ \A i \in 1..Len(notes) :
          /\ notes[i].stringIndex \in StruckStrings
          /\ notes[i].fret =
               DecimalValue(RunAt(ContentsOf(ribbon)[notes[i].stringIndex + 1],
                                  column))
    /\ \A i, j \in 1..Len(notes) :
          i < j => notes[i].stringIndex < notes[j].stringIndex

\* C12 witness: a column where one string shows a two-digit fret and its
\* neighbour a one-digit fret written with a leading zero
C12_Witness ==
  /\ pcNotes = "notes"
  /\ IsRibbon(ribbon)
  /\ Len(notes) = 2
  /\ notes[1].stringIndex + 1 = notes[2].stringIndex
  /\ notes[1].fret = 12
  /\ notes[2].fret = 5
  /\ RunLength(ContentsOf(ribbon)[notes[2].stringIndex + 1], column) = 2

\* C13 as stated: every event of parseNotesAtColumn has a fret parsed from 1
\* or 2 digits, so 0 <= fret <= 99, and a column carries 0 to 6 events.
C13_FretOfTwoDigits ==
  pcNotes = "notes" =>
    /\ Len(notes) \in 0..6
    /\ \A i \in 1..Len(notes) : notes[i].fret \in 0..99

\* The part of C13 the code keeps: a column carries 0 to 6 events, each on a
\* string of its own, with a fret that is a natural number
C13_AtMostSixEvents ==
  pcNotes = "notes" =>
    /\ Len(notes) \in 0..6
    /\ \A i \in 1..Len(notes) :
          notes[i].stringIndex \in 0..5 /\ notes[i].fret \in Nat

\* Whether the column is at or beyond the content of every string line
BeyondEveryLine ==
  LET ls == Split(ribbon)
  IN  \A i \in 1..Len(ls) :
         StringPrefixPattern(Trim(ls[i])) =>
           column >= Len(ls[i]) - IndexOf(ls[i], "|") - 1

NoPrefixedLine ==
  LET ls == Split(ribbon)
  IN  \A i \in 1..Len(ls) : ~StringPrefixPattern(Trim(ls[i]))

\* C14: parseNotesAtColumn returns an empty list for a negative column, for
\* a column at or beyond every line's content length and for empty text;
\* findUniqueCharacterPositions returns an empty list for empty text and for
\* text with no string-prefixed line.
C14_DegradesToEmpty ==
  /\ (/\ pcNotes = "notes"
      /\ (column < 0 \/ BeyondEveryLine \/ Trim(ribbon) = <<>>)) =>
       notes = <<>>
  /\ (pcRibbon = "positions" /\ (Trim(ribbon) = <<>> \/ NoPrefixedLine)) =>
       uniquePositions = <<>>

\* C14 witness: a text whose only line has a pipe and a digit but no string
\* letter gave no position and no event
C14_Witness ==
  /\ pcNotes = "notes"
  /\ pcRibbon = "positions"
  /\ ribbon # <<>>
  /\ NoPrefixedLine
  /\ \E i \in 1..Len(ribbon) : ribbon[i] \in Digits
  /\ column = 0
  /\ notes = <<>>
  /\ uniquePositions = <<>>

\* ------------------------------------------------------------------------
\* Properties of the scale, chord and fret functions (SpecTheory)
\* ------------------------------------------------------------------------

\* The twelve note names
ValidNotes == {NOTE_NAMES[i] : i \in 1..12}

\* The note a number of semitones above a valid note
Transpose(name, semitones) ==
  NOTE_NAMES[((IndexOf(NOTE_NAMES, name) + semitones) % 12) + 1]

\* The semitone distance from a valid root up to a valid note
Distance(rootName, name) ==
  (IndexOf(NOTE_NAMES, name) - IndexOf(NOTE_NAMES, rootName) + 12) % 12

\* The fixed table of labels by semitone distance 0..11
DegreeLabels ==
  <<"1", "b2", "2", "b3", "3", "4", "b5", "5", "#5", "6", "b7", "7">>

\* Whether a semitone distance is an interval of the voicing's pattern
InPattern(voicingName, semitones) ==
  \E i \in 1..Len(CHORD_PATTERNS[voicingName]) :
     CHORD_PATTERNS[voicingName][i] = semitones

\* C15 as stated: for every valid note, valid chordRoot and known voicing
\* getChordFunction returns the label of the semitone distance from the fixed
\* table, both when the distance is in the voicing's pattern and, as a
\* fallback, when it is not; it returns null only when the root or the note
\* is not a valid note name.
C15_LabelForEveryDistance ==
  (/\ args.fn = "getChordFunction"
   /\ chordFunction # NotCalled
   /\ args.voicing \in DOMAIN CHORD_PATTERNS) =>
    /\ (args.note \in ValidNotes /\ args.chordRoot \in ValidNotes) =>
         chordFunction[2] = DegreeLabels[Distance(args.chordRoot, args.note) + 1]
    /\ chordFunction[2] = Null =>
         (args.note \notin ValidNotes \/ args.chordRoot \notin ValidNotes)

\* What the code does instead: the label of the table for a distance of the
\* voicing's pattern, null for every other distance
C15_LabelForChordTonesOnly ==
  (/\ args.fn = "getChordFunction"
   /\ chordFunction # NotCalled
   /\ args.voicing \in DOMAIN CHORD_PATTERNS
   /\ args.note \in ValidNotes
   /\ args.chordRoot \in ValidNotes) =>
    chordFunction[2] =
      (IF InPattern(args.voicing, Distance(args.chordRoot, args.note))
       THEN DegreeLabels[Distance(args.chordRoot, args.note) + 1]
       ELSE Null)

\* The offsets of the major scale
MajorOffsets == <<0, 2, 4, 5, 7, 9, 11>>

\* The major scale of a valid key
MajorScaleOf(keyName) == [i \in 1..7 |-> Transpose(keyName, MajorOffsets[i])]

\* The 0-based index of a note in the major scale of a valid key, -1 if none
DegreeIn(keyName, name) == IndexOf(MajorScaleOf(keyName), name)

\* A sus4 call with a valid root and a key that is a note name or absent
Sus4Call ==
  /\ args.fn = "getChordNotes"
  /\ args.voicing = "sus4"
  /\ args.root \in ValidNotes
  /\ args.key \in ValidNotes \cup {Null}

\* Whether the root is a degree of the given key
RootInKey ==
  args.key \in ValidNotes /\ DegreeIn(args.key, args.root) # -1

\* The sus4 notes with the given fifth: the diatonic 4th when the root is a
\* degree of the key, the note 5 semitones up otherwise
Sus4With(fifth) ==
  IF RootInKey
  THEN <<args.root,
         MajorScaleOf(args.key)[((DegreeIn(args.key, args.root) + 3) % 7) + 1],
         fifth>>
  ELSE <<args.root, Transpose(args.root, 5), fifth>>

\* C16 as stated: getChordNotes(root, 'sus4', flattenFifth, key) returns
\* [root, scale[(i+3) mod 7], fifth] when the key's major scale has root at
\* index i, and root+0, root+5, root+7 when key is absent or root is not in
\* that scale.
C16_AsStated ==
  Sus4Call =>
    \A flattenFifth \in BOOLEAN :
       chordNotes[flattenFifth] # NotCalled =>
         chordNotes[flattenFifth] = Return(Sus4With(Transpose(args.root, 7)))

\* C16 amended: as stated for a key that is absent or a note name, with the
\* fifth being root+7, and root+6 in its place when flattenFifth is set; a
\* key that is no note name makes the sus4 call fail with the invalid-key
\* error.
C16_DiatonicFourth ==
  /\ Sus4Call =>
       \A flattenFifth \in BOOLEAN :
          chordNotes[flattenFifth] # NotCalled =>
            chordNotes[flattenFifth] =
              Return(Sus4With(Transpose(args.root,
                                        IF flattenFifth THEN 6 ELSE 7)))
  /\ (/\ args.fn = "getChordNotes"
      /\ args.voicing = "sus4"
      /\ args.root \in ValidNotes
      /\ args.key \notin ValidNotes \cup {Null}) =>
       \A flattenFifth \in BOOLEAN :
          chordNotes[flattenFifth] # NotCalled =>
            /\ Throws(chordNotes[flattenFifth])
            /\ chordNotes[flattenFifth][2] = "Invalid key"

\* C16 witness: F sus4 in the key of C has the diatonic 4th B, a tritone
\* above the root, and the flattened call has root+6 as its fifth
C16_Witness ==
  /\ Sus4Call
  /\ args.root = "F"
  /\ args.key = "C"
  /\ chordNotes[FALSE] = Return(<<"F", "B", "C">>)
  /\ chordNotes[TRUE] = Return(<<"F", "B", "B">>)

\* Both calls of getChordNotes, plain and flattened, were made
BothChordNotes ==
  /\ args.fn = "getChordNotes"
  /\ chordNotes[FALSE] # NotCalled
  /\ chordNotes[TRUE] # NotCalled

\* C17: for every root, voicing and key context, getChordNotes with
\* flattenFifth set returns the notes of the unflattened call with every tone
\* 7 semitones above the root replaced by the tone 6 semitones above it and
\* all other tones unchanged; a voicing without a 7-semitone interval is
\* unaffected by the flag. (A call that fails, fails alike with the flag.)
C17_FlattenedFifth ==
  BothChordNotes =>
    IF Throws(chordNotes[FALSE]) THEN chordNotes[TRUE] = chordNotes[FALSE]
    ELSE
      /\ Returns(chordNotes[TRUE])
      /\ Len(chordNotes[TRUE][2]) = Len(chordNotes[FALSE][2])
      /\ \A i \in 1..Len(chordNotes[FALSE][2]) :
            chordNotes[TRUE][2][i] =
              (IF chordNotes[FALSE][2][i] = Transpose(args.root, 7)
               THEN Transpose(args.root, 6)
               ELSE chordNotes[FALSE][2][i])
      /\ ~InPattern(args.voicing, 7) => chordNotes[TRUE] = chordNotes[FALSE]

\* C17 witness: a seventh chord whose fifth alone moved, next to its third
\* and seventh
C17_Witness ==
  /\ BothChordNotes
  /\ args.root = "A"
  /\ args.voicing = "m7"
  /\ chordNotes[FALSE] = Return(<<"A", "C", "E", "G">>)
  /\ chordNotes[TRUE] = Return(<<"A", "C", "D#", "G">>)

\* C18: getScaleNotes(root, style) fails with the invalid-root error when
\* root is none of the 12 note names, also when the style is unknown as well;
\* fails with the invalid-style error when only the style is unknown; and
\* otherwise returns NOTE_NAMES[(rootIndex + offset) mod 12] for each offset
\* in pattern order; ('C', 'major') gives C, D, E, F, G, A, B.
C18_ScaleNotes ==
  (args.fn = "getScaleNotes" /\ scaleNotes # NotCalled) =>
    /\ args.key \notin ValidNotes =>
         Throws(scaleNotes) /\ scaleNotes[2] = "Invalid key"
    /\ (args.key \in ValidNotes /\ args.scaleStyle \notin DOMAIN SCALE_PATTERNS) =>
         Throws(scaleNotes) /\ scaleNotes[2] = "Invalid scale style"
    /\ (args.key \in ValidNotes /\ args.scaleStyle \in DOMAIN SCALE_PATTERNS) =>
         /\ Returns(scaleNotes)
         /\ Len(scaleNotes[2]) = Len(SCALE_PATTERNS[args.scaleStyle])
         /\ \A i \in 1..Len(scaleNotes[2]) :
               scaleNotes[2][i] =
                 Transpose(args.key, SCALE_PATTERNS[args.scaleStyle][i])
    /\ (args.key = "C" /\ args.scaleStyle = "major") =>
         scaleNotes = Return(<<"C", "D", "E", "F", "G", "A", "B">>)

\* C18 witness: a root that is no note name together with an unknown style
\* reported the root
C18_Witness ==
  /\ args.fn = "getScaleNotes"
  /\ args.key \notin ValidNotes
  /\ args.scaleStyle \notin DOMAIN SCALE_PATTERNS
  /\ Throws(scaleNotes)
  /\ scaleNotes[2] = "Invalid key"

\* The index in NOTE_NAMES and the pitch number of the six open strings
OpenNoteIndex == <<4, 11, 7, 2, 9, 4>>

OpenPitch == <<64, 59, 55, 50, 45, 40>>

\* The note of a string at a fret, from the open notes
TuningNote(s, f) == NOTE_NAMES[((OpenNoteIndex[s + 1] + f) % 12) + 1]

\* The notes handed to getScalePositions, as a set
NoteSet == {args.scaleNotes[i] : i \in 1..Len(args.scaleNotes)}

\* C19: getScalePositions(noteSet, maxFret) returns exactly the pairs
\* (string, fret) with string in 0..5 and fret in 0..maxFret whose note at
\* that fret is in noteSet, each pair once, ordered by string and then by
\* fret ascending; every returned note is the note of its string and fret.
C19_ScalePositions ==
  (args.fn = "getScalePositions" /\ scalePositions # NotCalled) =>
    LET P == scalePositions[2]
    IN  /\ \A i \in 1..Len(P) :
              /\ P[i].stringIndex \in 0..5
              /\ P[i].fret \in 0..args.maxFrets
              /\ P[i].note = TuningNote(P[i].stringIndex, P[i].fret)
              /\ P[i].note \in NoteSet
        /\ \A s \in 0..5, f \in 0..args.maxFrets :
              TuningNote(s, f) \in NoteSet =>
                \E i \in 1..Len(P) : P[i].stringIndex = s /\ P[i].fret = f
        /\ \A i, j \in 1..Len(P) :
              i < j =>
                \/ P[i].stringIndex < P[j].stringIndex
                \/ /\ P[i].stringIndex = P[j].stringIndex
                   /\ P[i].fret < P[j].fret

\* C19 witness: a note listed twice is found once at the G string's fifth
\* fret and at the last fret asked for on the B string
C19_Witness ==
  /\ args.fn = "getScalePositions"
  /\ args.scaleNotes = <<"C", "C">>
  /\ args.maxFrets = 13
  /\ scalePositions # NotCalled
  /\ Len(scalePositions[2]) = 7
  /\ \E i \in 1..7 : scalePositions[2][i] =
                       [stringIndex |-> 1, fret |-> 13, note |-> "C"]
  /\ \E i \in 1..7 : scalePositions[2][i] =
                       [stringIndex |-> 2, fret |-> 5, note |-> "C"]

\* C20: for every string s in 0..5 and fret f >= 0, getNoteAtFret(s, f+12) =
\* getNoteAtFret(s, f); getNoteWithOctaveAtFret(s, f) has octave
\* floor((openPitch(s)+f)/12) - 1 and the note name of getNoteAtFret(s, f);
\* the octave at f+12 is the octave at f plus 1; string 0 fret 0 is E with
\* octave 4.
C20_OctaveEquivalence ==
  args.fn = "getNoteAtFret" =>
    /\ (noteAtFret[0] # NotCalled /\ noteAtFret[1] # NotCalled) =>
         noteAtFret[1] = noteAtFret[0]
    /\ \A octaves \in {0, 1} :
          noteWithOctave[octaves] # NotCalled =>
            /\ noteWithOctave[octaves][2].octave =
                 ((OpenPitch[args.stringIndex + 1] + args.fret + 12 * octaves)
                    \div 12) - 1
            /\ noteAtFret[octaves] # NotCalled =>
                 noteWithOctave[octaves][2].note = noteAtFret[octaves][2]
    /\ (noteWithOctave[0] # NotCalled /\ noteWithOctave[1] # NotCalled) =>
         noteWithOctave[1][2].octave = noteWithOctave[0][2].octave + 1
    /\ (args.stringIndex = 0 /\ args.fret = 0) =>
         /\ noteAtFret[0] # NotCalled => noteAtFret[0] = Return("E")
         /\ noteWithOctave[0] # NotCalled =>
              noteWithOctave[0] = Return([note |-> "E", octave |-> 4])

\* C20 witness: the open high E string and its twelfth fret, all four calls
\* made
C20_Witness ==
  /\ args.fn = "getNoteAtFret"
  /\ args.stringIndex = 0
  /\ args.fret = 0
  /\ noteAtFret[0] = Return("E")
  /\ noteAtFret[1] = Return("E")
  /\ noteWithOctave[0] = Return([note |-> "E", octave |-> 4])
  /\ noteWithOctave[1] = Return([note |-> "E", octave |-> 5])

\* ------------------------------------------------------------------------
\* Chord context properties (App)
\* ------------------------------------------------------------------------

\* The note of the selected degree in the selected key
DegreeNote ==
  MajorScaleOf(selectedKey)[CHOOSE i \in 1..7 :
                              SeventhDegrees[i] = selectedChordDegree]

\* The label shown for the same selection with Flatten Root off
UnflattenedNumeral ==
  getSelectedChordRomanNumeral(contextEnabled, SeventhChordsOfKey[2],
                               selectedChordDegree, selectedFlavor,
                               useSevenths, FALSE)

\* C21 as stated: for every key and every selected degree, with Flatten Root
\* on the resulting chord's root is the note one semitone below the degree's
\* note (mod 12) and the roman-numeral label is the unflattened label with
\* 'b' prefixed (same degree numeral and voicing suffix).
C21_FlatPrefixed ==
  (contextEnabled /\ flattenRoot) =>
    /\ Returns(resultingChord)
    /\ resultingChord[2].root = Transpose(DegreeNote, 11)
    /\ RomanNumeral = "b" \o UnflattenedNumeral

\* The part of C21 the code keeps: the root moves one semitone down, and the
\* label is 'b' with the unflattened label exactly when the flattened root is
\* no note of the key's major scale; when it is one, the numeral is the
\* degree of that scale note
C21_RootFlattened ==
  (contextEnabled /\ flattenRoot) =>
    /\ Returns(resultingChord)
    /\ resultingChord[2].root = Transpose(DegreeNote, 11)
    /\ (DegreeIn(selectedKey, Transpose(DegreeNote, 11)) = -1)
         <=> (RomanNumeral = "b" \o UnflattenedNumeral)

\* Flatten Root turned on for degree I of C with the sevenths: the chord is
\* Bmaj7 and the label names degree vii
C21_Witness ==
  /\ contextEnabled /\ flattenRoot /\ contextEffects = {}
  /\ selectedKey = "C" /\ selectedChordDegree = "I" /\ useSevenths
  /\ selectedFlavor = "maj7"
  /\ resultingChord[2].root = "B"
  /\ resultingChord[2].name = "Bmaj7"
  /\ UnflattenedNumeral = "Imaj7"
  /\ RomanNumeral = "bviimaj7"

\* ------------------------------------------------------------------------
\* Properties of the metarow scan (SpecExtract)
\* ------------------------------------------------------------------------

\* The string letter of each scanned line
LettersOf(ls) == [i \in 1..Len(ls) |-> ToUpperCase(ls[i][1])]

\* The string each line is assigned by the stated rule: E lines alternate
\* 0, 5 over the whole scan, B, G, D, A are 1, 2, 3, 4
AssignedStrings(letters) ==
  [i \in 1..Len(letters) |->
     IF letters[i] = "E"
     THEN IF Cardinality({j \in 1..(i - 1) : letters[j] = "E"}) % 2 = 0
          THEN 0 ELSE 5
     ELSE CASE letters[i] = "B" -> 1 [] letters[i] = "G" -> 2
            [] letters[i] = "D" -> 3 [] letters[i] = "A" -> 4]

\* The metarow each line falls in by the stated rule: a new one starts with
\* the first line and with every later line assigned string 0
MetarowNumbers(assigned) ==
  [i \in 1..Len(assigned) |->
     Cardinality({j \in 1..i : j = 1 \/ assigned[j] = 0})]

\* C22: scanning the qualifying lines, groupIntoMetarows assigns the first E
\* line to string 0 and the next to string 5, alternating regardless of
\* metarow boundaries, and B, G, D, A lines to strings 1..4; a new metarow
\* starts exactly when a line assigned string 0 arrives while the current
\* metarow is non-empty; for complete E,B,G,D,A,E blocks, block k becomes
\* metarow k with all six strings.
C22_MetarowScan ==
  pcExtract # "input" =>
    LET ls       == TabLines(text)
        n        == Len(ls)
        scanned  == groupIntoMetarows(ls)
        assigned == AssignedStrings(LettersOf(ls))
        number   == MetarowNumbers(assigned)
    IN  /\ Len(scanned) = (IF n = 0 THEN 0 ELSE number[n])
        /\ \A k \in 1..Len(scanned) :
              /\ MetarowKeys(scanned[k]) =
                   {assigned[i] : i \in {j \in 1..n : number[j] = k}}
              /\ \A s \in MetarowKeys(scanned[k]) :
                    \E i \in 1..n :
                       /\ number[i] = k
                       /\ assigned[i] = s
                       /\ scanned[k][s] = Substring(ls[i], 2)
        /\ n > 0 => extracted = Join(concatenateMetarows(scanned))
        /\ (Len(blocks) >= 1 /\ \A k \in 1..Len(blocks) : blocks[k].omit = -1)
             => /\ Len(scanned) = Len(blocks)
                /\ \A k \in 1..Len(blocks) :
                      scanned[k] = [s \in 0..5 |-> BlockContent(blocks[k], s)]

\* C22 witness: a block without its second E line followed by a complete
\* block was scanned; the first E line of the second block is assigned string
\* 5 and stays in the first metarow, the last E line opens a second metarow
C22_Witness ==
  /\ pcExtract = "extracted"
  /\ Len(blocks) = 2
  /\ blocks[1].omit = 5 /\ blocks[2].omit = -1
  /\ LET ls       == TabLines(text)
         scanned  == groupIntoMetarows(ls)
         assigned == AssignedStrings(LettersOf(ls))
         number   == MetarowNumbers(assigned)
     IN  /\ Len(ls) = 11
         /\ assigned[6] = 5 /\ number[6] = 1
         /\ assigned[11] = 0 /\ number[11] = 2
         /\ Len(scanned) = 2
         /\ MetarowKeys(scanned[1]) = 0..5
         /\ MetarowKeys(scanned[2]) = {0}

\* ------------------------------------------------------------------------
\* Reachability of fret numbers (SpecRibbon)
\* ------------------------------------------------------------------------

\* Whether a maximal run of digits of a content line begins at a column
RunStartsAt(line, col) ==
  DigitAt(line, col) /\ (col = 0 \/ ~DigitAt(line, col - 1))

\* C23 as stated: for every ribbon, every maximal run of digits on any
\* string begins at the column of some position returned by
\* findUniqueCharacterPositions, also when it starts inside the columns
\* claimed by a wider number on another string.
C23_EveryRunReported ==
  pcRibbon = "positions" =>
    LET c == ContentsOf(ribbon)
    IN  \A i \in 1..Len(c) : \A col \in RibbonColumns :
           RunStartsAt(c[i], col) => Reported(col)

\* What the code does: a run begins at a reported column unless the column
\* is claimed by an earlier position
C23_RunReportedOrClaimed ==
  pcRibbon = "positions" =>
    LET c == ContentsOf(ribbon)
    IN  \A i \in 1..Len(c) : \A col \in RibbonColumns :
           RunStartsAt(c[i], col) => (Reported(col) <=> ~Claimed(col))

\* A fret number no position reaches: 12 on one string claims columns 0 and
\* 1, the 2 on the next string begins at column 1; the only position is
\* column 0, where parseNotesAtColumn reads a dash on that string
C23_HiddenRun ==
  /\ pcRibbon = "positions"
  /\ LET c == ContentsOf(ribbon)
     IN  /\ c[1] = <<"1", "2">> /\ c[2] = <<"-", "2">>
         /\ uniquePositions = <<[column |-> 0, width |-> 2]>>
         /\ parseNotesAtColumn(ribbon, 0) = <<[stringIndex |-> 0, fret |-> 12]>>

\* ------------------------------------------------------------------------
\* Conservation of tab content (SpecExtract)
\* ------------------------------------------------------------------------

\* The total length of a sequence of lines
RECURSIVE TotalLength(_)
TotalLength(ls) ==
  IF ls = <<>> THEN 0 ELSE Len(Head(ls)) + TotalLength(Tail(ls))

\* The post-pipe contents of the qualifying lines of a text
QualifyingContents(t) ==
  LET ls == TabLines(t) IN [i \in 1..Len(ls) |-> Substring(ls[i], 2)]

\* C24 as stated: for every input the total content length of the 6 ribbon
\* lines equals the total post-pipe content length of all qualifying input
\* lines; a line whose string is already filled in the current metarow does
\* not overwrite the earlier content.
C24_ContentConserved ==
  pcExtract # "input" =>
    TotalLength(ContentsOf(extracted)) = TotalLength(QualifyingContents(text))

\* What the code keeps: the ribbon never holds more than the qualifying
\* lines, and holds all of it when no string is assigned twice in a metarow
C24_ContentNeverGrows ==
  pcExtract # "input" =>
    LET ls       == TabLines(text)
        assigned == AssignedStrings(LettersOf(ls))
        number   == MetarowNumbers(assigned)
    IN  /\ TotalLength(ContentsOf(extracted))
             <= TotalLength(QualifyingContents(text))
        /\ (\A i, j \in 1..Len(ls) :
               (i < j /\ number[i] = number[j]) => assigned[i] # assigned[j])
             => TotalLength(ContentsOf(extracted))
                  = TotalLength(QualifyingContents(text))

\* Content lost: two B lines in a row, the ribbon keeps only the second
C24_Overwritten ==
  /\ pcExtract = "extracted"
  /\ text = Join(<< TabLine("B", <<"-">>), TabLine("B", <<"2">>) >>)
  /\ ContentsOf(extracted) = << <<>>, <<"2">>, <<>>, <<>>, <<>>, <<>> >>

\* ------------------------------------------------------------------------
\* Positions and the notes read at them (SpecPipeline)
\* ------------------------------------------------------------------------

\* The number of decimal digits of a fret number
RECURSIVE DecimalDigits(_)
DecimalDigits(n) == IF n < 10 THEN 1 ELSE 1 + DecimalDigits(n \div 10)

\* The positions at the column the notes were read at
PositionsRead ==
  {i \in 1..Len(uniquePositions) : uniquePositions[i].column = column}

\* C25 as stated: for every ribbon produced by extractTabContent and every
\* position p of findUniqueCharacterPositions on it, parseNotesAtColumn at
\* p.column returns at least 1 and at most 6 events, and p.width equals the
\* largest number of digits among those events' fret numbers.
C25_AsStated ==
  pcNotes = "notes" =>
    /\ Len(notes) >= 1 /\ Len(notes) <= 6
    /\ \A p \in PositionsRead :
          uniquePositions[p].width =
            SetMax({DecimalDigits(notes[i].fret) : i \in 1..Len(notes)})

\* C25 amended: at least 1 and at most 6 events, each event's fret is the
\* value of the digit run that begins at p.column on its string, and p.width
\* is the length of the longest of these runs; a run without a leading zero
\* is as long as its fret has digits.
C25_WidthOfRuns ==
  pcNotes = "notes" =>
    LET c == ContentsOf(ribbon)
    IN  /\ Len(notes) >= 1 /\ Len(notes) <= 6
        /\ Cardinality(PositionsRead) = 1
        /\ \A i \in 1..Len(notes) :
              LET line == c[notes[i].stringIndex + 1]
                  run  == RunLength(line, column)
              IN  /\ run >= 1
                  /\ notes[i].fret = DecimalValue(RunAt(line, column))
                  /\ (run = 1 \/ line[column + 1] # "0")
                       => DecimalDigits(notes[i].fret) = run
        /\ \A p \in PositionsRead :
              uniquePositions[p].width =
                SetMax({RunLength(c[notes[i].stringIndex + 1], column) :
                          i \in 1..Len(notes)})

\* C25 witness: 05 on one string and 3 on another at column 0: two events
\* with the one-digit frets 5 and 3 at a position of width 2
C25_Witness ==
  /\ pcNotes = "notes"
  /\ column = 0
  /\ uniquePositions[1] = [column |-> 0, width |-> 2]
  /\ notes = <<[stringIndex |-> 0, fret |-> 5], [stringIndex |-> 3, fret |-> 3]>>

\* ------------------------------------------------------------------------
\* Acceptance of a pasted text (App)
\* ------------------------------------------------------------------------

\* Whether a text is a ribbon whose six lines all have content
FullRibbon(t) ==
  /\ IsRibbon(t)
  /\ \A i \in 1..6 : ContentsOf(t)[i] # <<>>

\* The strings that some qualifying line of a text is assigned to
StringsAppearing(t) ==
  LET assigned == AssignedStrings(LettersOf(TabLines(t)))
  IN  {assigned[i] : i \in 1..Len(assigned)}

C26_Rejected ==
  /\ lastOp = "parse"
  /\ pastedTabText = PasteFiveStrings
  /\ StringsAppearing(pastedTabText) = 0..4
  /\ ContentsOf(extractTabContent(pastedTabText))[6] = <<>>
  /\ tabText = <<>>
  /\ error = CouldNotFind

\* The same equivalence on every extracted text of SpecExtract: the
\* validation handleParseTabs applies accepts a ribbon exactly when its six
\* lines all have content
C26_ValidWhenFull ==
  pcExtract # "input" => (isValidTabText(extracted) <=> FullRibbon(extracted))

\* ------------------------------------------------------------------------
\* Labels of the context chord (SpecContext)
\* ------------------------------------------------------------------------

\* The label the fretboard shows on the positions of a note of the chord
ChordNoteLabel(name) ==
  getChordPositionLabel(name, resultingChord, displayMode, selectedKey)

\* C27 as stated: for every key, degree, voicing choice and flatten-root
\* setting reachable in the UI, every note of the resulting context chord
\* (the diatonic sus4 included) gets a non-null label from getChordFunction
\* against the chord's root and voicing in chord display mode.
C27_EveryChordNoteLabelled ==
  (contextEnabled /\ displayMode = "chord") =>
    /\ Returns(resultingChord)
    /\ \A i \in 1..Len(resultingChord[2].notes) :
          ChordNoteLabel(resultingChord[2].notes[i]) # Return(Null)

\* What the code keeps: a note of the chord is without label exactly when it
\* is the second note of a sus4 chord and lies no perfect fourth above the
\* root
C27_LabelledButTritone ==
  (contextEnabled /\ displayMode = "chord") =>
    /\ Returns(resultingChord)
    /\ \A i \in 1..Len(resultingChord[2].notes) :
          (ChordNoteLabel(resultingChord[2].notes[i]) = Return(Null))
            <=> (/\ resultingChord[2].voicing = "sus4"
                 /\ i = 2
                 /\ Distance(resultingChord[2].root,
                             resultingChord[2].notes[i]) # 5)

\* The sus4 chord of degree IV of C in chord display mode: F, B, C, and no
\* label for B
C27_UnlabelledFourth ==
  /\ contextEnabled /\ displayMode = "chord" /\ contextEffects = {}
  /\ selectedKey = "C" /\ selectedChordDegree = "IV" /\ ~useSevenths
  /\ selectedFlavor = "sus4" /\ ~flattenRoot
  /\ resultingChord[2].notes = <<"F", "B", "C">>
  /\ ChordNoteLabel("F") = Return("1")
  /\ ChordNoteLabel("B") = Return(Null)
  /\ ChordNoteLabel("C") = Return("5")


\* ------------------------------------------------------------------------
\* The stored tab position and the playback
\* ------------------------------------------------------------------------

\* Every scheduled effect has run
Quiescent == pendingEffects = NoEffects

\* The position follows the index and the ribbon: null without a position or
\* without a note at its column, else the column of positions[index] with
\* the notes of parseNotesAtColumn at that column, each with its note name
PositionSettled ==
  IF tabText = <<>> \/ NumPositions = 0 THEN currentTabPosition = NullPosition
  ELSE
    LET expectedColumn == tabUniquePositions[currentTabPositionIndex + 1].column
        expectedNotes == parseNotesAtColumn(tabText, expectedColumn)
    IN  IF expectedNotes = <<>> THEN currentTabPosition = NullPosition
        ELSE /\ currentTabPosition # NullPosition
             /\ currentTabPosition[1].column = expectedColumn
             /\ Len(currentTabPosition[1].notes) = Len(expectedNotes)
             /\ \A i \in 1..Len(expectedNotes) :
                  /\ currentTabPosition[1].notes[i].stringIndex
                       = expectedNotes[i].stringIndex
                  /\ currentTabPosition[1].notes[i].fret = expectedNotes[i].fret
                  /\ currentTabPosition[1].notes[i].note
                       = getNoteAtFret(expectedNotes[i].stringIndex,
                                       expectedNotes[i].fret)

\* The handler that ran last changed the position index or the ribbon
IndexOrRibbonChanged ==
  \/ lastOp \in {"parse", "revert"}
  \/ /\ lastOp \in {"previous", "next", "ArrowLeft", "ArrowRight", "click",
                    "drag"}
     /\ currentTabPositionIndex # prevIndex

\* The (stringIndex, fret) pairs of the stored position's notes, as one
\* playback; no playback when the position is null
OnePlaybackOfPosition ==
  IF currentTabPosition = NullPosition THEN <<>>
  ELSE << [i \in 1..Len(currentTabPosition[1].notes) |->
             [stringIndex |-> currentTabPosition[1].notes[i].stringIndex,
              fret        |-> currentTabPosition[1].notes[i].fret]] >>

\* C28: after every change of the position index or of the ribbon the
\* effects run to the end, and then the stored position is {column, notes}
\* with column = positions[index].column and notes = parseNotesAtColumn(
\* ribbon, column), or null when there is no position or no note; with the
\* projection on the change has played exactly those notes, once, and with
\* the projection off nothing is played.
C28_PositionAndPlayback ==
  /\ [](~Quiescent => <>Quiescent)
  /\ [](Quiescent => PositionSettled)
  /\ [](Quiescent /\ IndexOrRibbonChanged /\ projectTabToFretboard
          => played = OnePlaybackOfPosition)
  /\ [](~projectTabToFretboard => played = <<>>)

\* C28 witness: with the projection on, Next moved the index and the notes
\* of the new position were played
C28_Witness ==
  /\ Quiescent
  /\ projectTabToFretboard
  /\ lastOp = "next"
  /\ currentTabPositionIndex = prevIndex + 1
  /\ currentTabPosition # NullPosition
  /\ Len(played) = 1
  /\ played = OnePlaybackOfPosition


\* ------------------------------------------------------------------------
\* The seventh chords of a key
\* ------------------------------------------------------------------------

\* The seven chords of a key were listed and built
SeventhChordsBuilt ==
  /\ args.fn = "getSeventhChordsFromKey"
  /\ Returns(seventhChords)
  /\ seventhChordNotes # NotCalled

\* The notes of a list, as a set
NotesAmong(noteList) == {noteList[i] : i \in 1..Len(noteList)}

\* C29: for every key of the 12 getSeventhChordsFromKey gives 7 chords with
\* the degrees I, ii, iii, IV, V, vi, vii on the notes of the key's major
\* scale in order and the voicings maj7, m7, m7, maj7, 7, m7,
\* half-diminished; getChordNotes builds each of them from its root and
\* voicing as 4 distinct notes that all belong to that major scale. A key
\* that is no note name gives no chords.
C29_SeventhChordsDiatonic ==
  /\ (args.fn = "getSeventhChordsFromKey" /\ seventhChords # NotCalled) =>
       /\ Returns(seventhChords) <=> args.key \in ValidNotes
       /\ Returns(seventhChords) =>
            /\ Len(seventhChords[2]) = 7
            /\ \A i \in 1..7 :
                 /\ seventhChords[2][i].degree
                      = <<"I", "ii", "iii", "IV", "V", "vi", "vii">>[i]
                 /\ seventhChords[2][i].note = MajorScaleOf(args.key)[i]
                 /\ seventhChords[2][i].voicing
                      = <<"maj7", "m7", "m7", "maj7", "7", "m7",
                          "half-diminished">>[i]
  /\ SeventhChordsBuilt =>
       /\ Len(seventhChordNotes[2]) = 7
       /\ \A i \in 1..7 :
            LET built == seventhChordNotes[2][i]
            IN  /\ Returns(built)
                /\ Len(built[2]) = 4
                /\ Cardinality(NotesAmong(built[2])) = 4
                /\ built[2][1] = seventhChords[2][i].note
                /\ NotesAmong(built[2])
                     \subseteq NotesAmong(MajorScaleOf(args.key))

\* C29 witness: the chords of the key of C were built; the first is C E G B
\* and the seventh B D F A
C29_Witness ==
  /\ SeventhChordsBuilt
  /\ args.key = "C"
  /\ seventhChordNotes[2][1] = Return(<<"C", "E", "G", "B">>)
  /\ seventhChordNotes[2][7] = Return(<<"B", "D", "F", "A">>)


\* ------------------------------------------------------------------------
\* The arguments the controls hand to getScaleNotes and getChordNotes
\* ------------------------------------------------------------------------

\* The calls of getScaleNotes in a render: <<key, scaleStyle>> of the
\* scalePositions memo, of the Pentatonic + memo and of
\* getSeventhChordsFromKey
ScaleCalls ==
  {<<selectedKey, ActualStyle(selectedStyle)>>, <<selectedKey, "major">>}

\* A chord of the key is selected with the context on, so that
\* getResultingChord calls getChordNotes
ChordCalled ==
  /\ contextEnabled
  /\ Returns(SeventhChordsOfKey)
  /\ FindByDegree(SeventhChordsOfKey[2], selectedChordDegree) # 0

\* The root and voicing getResultingChord hands to getChordNotes
ChordCallRoot ==
  LET chordsOfKey == SeventhChordsOfKey[2]
  IN  FlattenedRoot(chordsOfKey[FindByDegree(chordsOfKey,
                                             selectedChordDegree)].note,
                    flattenRoot)

ChordCallVoicing ==
  LET chordsOfKey == SeventhChordsOfKey[2]
      ofDegree    == chordsOfKey[FindByDegree(chordsOfKey,
                                              selectedChordDegree)].voicing
  IN  ActualVoicing(IF selectedFlavor # "" THEN selectedFlavor
                    ELSE getFlavorFromVoicing(ofDegree, useSevenths))

\* C30: in every state the controls reach (key, style, degree, sevenths
\* toggle, flavor buttons and their de-selection, flatten root, context
\* toggle, before and after the effects have run) getScaleNotes is called
\* with a note name and a known style and getChordNotes with a note name and
\* a known voicing, and none of the calls raises an error.
C30_NoTheoryError ==
  /\ \A call \in ScaleCalls :
       /\ call[1] \in ValidNotes
       /\ call[2] \in DOMAIN SCALE_PATTERNS
       /\ Returns(getScaleNotes(call[1], call[2]))
  /\ Returns(SeventhChordsOfKey)
  /\ ChordCalled =>
       /\ ChordCallRoot \in ValidNotes
       /\ ChordCallVoicing \in DOMAIN CHORD_PATTERNS
       /\ Returns(getChordNotes(ChordCallRoot, ChordCallVoicing, FALSE,
                                selectedKey))
  /\ ~Throws(resultingChord)

\* C30 witness: the half-diminished chord of a key with its flavor
\* de-selected by hand and its root flattened, rendered before the effects
\* of the click have run
C30_Witness ==
  /\ ChordCalled
  /\ selectedChordDegree = "vii"
  /\ selectedFlavor = ""
  /\ flavorManuallySet
  /\ flattenRoot
  /\ ChordCallVoicing = "half-diminished"
  /\ Returns(resultingChord)

====
